---------------------------- MODULE Spec2Model ----------------------------
(***************************************************************************)
(* Model of the loom-zed binary acquisition and resolution engine:         *)
(* src/src/download.rs (install cache, release lookup with retry, asset    *)
(* selection, download, binary search), src/src/env.rs (environment        *)
(* helpers, cache key), src/src/settings.rs (download settings) and the    *)
(* resolution entry points of src/src/lib.rs and src/src/dispatch.rs.      *)
(*                                                                         *)
(* Rust strings are TLA+ strings; Option<T> is a sequence of length 0 or 1.*)
(***************************************************************************)
EXTENDS Integers, Sequences, FiniteSets, TLC

None == <<>>
Some(v) == <<v>>
IsSome(o) == Len(o) = 1
Unwrap(o) == o[1]
UnwrapOr(o, d) == IF IsSome(o) THEN o[1] ELSE d

---------------------------------------------------------------------------
(* str helpers of the Rust standard library, computed character by          *)
(* character.                                                               *)

CharAt(s, i) == SubSeq(s, i, i)

IsWhitespace(c) == c \in {" ", "\t", "\n"}

\* str::starts_with
StartsWith(s, t) == Len(t) <= Len(s) /\ SubSeq(s, 1, Len(t)) = t

\* str::ends_with
EndsWith(s, t) == Len(t) <= Len(s) /\ SubSeq(s, Len(s) - Len(t) + 1, Len(s)) = t

\* str::contains
Contains(s, t) ==
    \E i \in 1..(Len(s) - Len(t) + 1) : SubSeq(s, i, i + Len(t) - 1) = t

RECURSIVE TrimStart(_)
TrimStart(s) ==
    IF Len(s) > 0 /\ IsWhitespace(CharAt(s, 1))
    THEN TrimStart(SubSeq(s, 2, Len(s)))
    ELSE s

RECURSIVE TrimEnd(_)
TrimEnd(s) ==
    IF Len(s) > 0 /\ IsWhitespace(CharAt(s, Len(s)))
    THEN TrimEnd(SubSeq(s, 1, Len(s) - 1))
    ELSE s

\* str::trim
Trim(s) == TrimEnd(TrimStart(s))

UpperChars == <<"A", "B", "C", "D", "E", "F", "G", "H", "I", "J", "K", "L", "M",
                "N", "O", "P", "Q", "R", "S", "T", "U", "V", "W", "X", "Y", "Z">>
LowerChars == <<"a", "b", "c", "d", "e", "f", "g", "h", "i", "j", "k", "l", "m",
                "n", "o", "p", "q", "r", "s", "t", "u", "v", "w", "x", "y", "z">>

LowerChar(c) ==
    IF \E i \in 1..Len(UpperChars) : UpperChars[i] = c
    THEN LowerChars[CHOOSE i \in 1..Len(UpperChars) : UpperChars[i] = c]
    ELSE c

\* str::to_ascii_lowercase
RECURSIVE to_ascii_lowercase(_)
to_ascii_lowercase(s) ==
    IF Len(s) = 0 THEN s
    ELSE LowerChar(CharAt(s, 1)) \o to_ascii_lowercase(SubSeq(s, 2, Len(s)))

\* Position of the last occurrence of the one-character string c in s, or 0.
RECURSIVE LastIndexOf(_, _)
LastIndexOf(s, c) ==
    IF Len(s) = 0 THEN 0
    ELSE IF CharAt(s, Len(s)) = c THEN Len(s)
    ELSE LastIndexOf(SubSeq(s, 1, Len(s) - 1), c)

\* Path::file_name
FileName(p) == SubSeq(p, LastIndexOf(p, "/") + 1, Len(p))

\* Path::parent(), with the caller's unwrap_or_else(|| Path::new("."))
ParentOrDot(p) ==
    IF LastIndexOf(p, "/") = 0 THEN "."
    ELSE SubSeq(p, 1, LastIndexOf(p, "/") - 1)

\* PathBuf::join for a relative second component
Join(a, b) == a \o "/" \o b

\* Number of occurrences of the one-character string c in s.
RECURSIVE CountChar(_, _)
CountChar(s, c) ==
    IF Len(s) = 0 THEN 0
    ELSE (IF CharAt(s, 1) = c THEN 1 ELSE 0) + CountChar(SubSeq(s, 2, Len(s)), c)

---------------------------------------------------------------------------
(* Platform (zed::Os, zed::Architecture) and the download settings.         *)

OsSet == {"Mac", "Linux", "Windows"}
ArchSet == {"Aarch64", "X8664", "X86"}

DEFAULT_LOOM_CORE_REPO == "crb2nu/loom-core"

\* A variant of enabled that does not read the setting.
enabled_Always(settings) == TRUE

\* LoomDownloadSettings::enabled
enabled(settings) == UnwrapOr(settings.enabled, TRUE)

\* LoomDownloadSettings::repo
repo(settings) == Trim(UnwrapOr(settings.repo, DEFAULT_LOOM_CORE_REPO))

\* LoomDownloadSettings::default()
DefaultDownloadSettings ==
    [enabled |-> None, repo |-> None, tag |-> None, asset |-> None]

\* env::install_key; {:?} of the platform enums prints the variant name.
install_key(settings, os, arch) ==
    "repo=" \o repo(settings)
        \o " tag=" \o UnwrapOr(settings.tag, "")
        \o " asset=" \o UnwrapOr(settings.asset, "")
        \o " os=" \o os
        \o " arch=" \o arch

\* env::current_path_sep, for the host's os
current_path_sep(os) == IF os = "Windows" THEN ";" ELSE ":"

---------------------------------------------------------------------------
(* Environment helpers of src/src/env.rs.  An environment is a sequence of  *)
(* <<name, value>> pairs (Vec<(String, String)>).                           *)

\* Index of the first entry of env named key, or 0 (iter().find).
FindEnv(env, key) ==
    IF \E i \in 1..Len(env) : env[i][1] = key
    THEN CHOOSE i \in 1..Len(env) :
            /\ env[i][1] = key
            /\ \A j \in 1..(i - 1) : env[j][1] # key
    ELSE 0

\* A variant of upsert_env that moves the entry it replaces to the end.
upsert_env_MovesToEnd(env, key, value) ==
    LET Other(e) == e[1] # key
    IN  Append(SelectSeq(env, Other), <<key, value>>)

\* A variant of upsert_env that never replaces an entry.
upsert_env_AlwaysAppends(env, key, value) == Append(env, <<key, value>>)

\* env::upsert_env
upsert_env(env, key, value) ==
    IF FindEnv(env, key) # 0
    THEN [env EXCEPT ![FindEnv(env, key)] = <<key, value>>]
    ELSE Append(env, <<key, value>>)

\* A variant of with_path_prefix that puts the prefix after the previous value.
with_path_prefix_Appended(env, prefix, sep, process_path) ==
    LET existing ==
            IF FindEnv(env, "PATH") # 0 THEN env[FindEnv(env, "PATH")][2]
            ELSE UnwrapOr(process_path, "")
        new_path ==
            IF Len(Trim(existing)) = 0 THEN prefix
            ELSE existing \o sep \o prefix
    IN  upsert_env(env, "PATH", new_path)

\* env::with_path_prefix; process_path is std::env::var("PATH").ok()
with_path_prefix(env, prefix, sep, process_path) ==
    LET existing ==
            IF FindEnv(env, "PATH") # 0 THEN env[FindEnv(env, "PATH")][2]
            ELSE UnwrapOr(process_path, "")
        new_path ==
            IF Len(Trim(existing)) = 0 THEN prefix
            ELSE prefix \o sep \o existing
    IN  upsert_env(env, "PATH", new_path)

\* Byte order of the variable names the model uses (String's Ord).
EnvNameOrder == <<"HOME", "LOOM_HOME", "PATH">>
EnvNameRank(k) == CHOOSE i \in 1..Len(EnvNameOrder) : EnvNameOrder[i] = k

\* env::env_map_to_vec: the map's pairs sorted by name.  A map is a set of
\* <<name, value>> pairs with distinct names.
RECURSIVE env_map_to_vec(_)
env_map_to_vec(map) ==
    IF map = {} THEN <<>>
    ELSE LET first == CHOOSE p \in map :
                        \A q \in map : EnvNameRank(p[1]) <= EnvNameRank(q[1])
         IN  <<first>> \o env_map_to_vec(map \ {first})

\* env::shell_env_to_vec
shell_env_to_vec(env) == env

---------------------------------------------------------------------------
(* Asset selection and archive kind, src/src/download.rs.  An asset is a    *)
(* record [name, download_url] (zed::GithubReleaseAsset).                   *)

\* Slice::iter().find by name
FindAsset(assets, name) ==
    IF \E i \in 1..Len(assets) : assets[i].name = name
    THEN Some(assets[CHOOSE i \in 1..Len(assets) :
                        /\ assets[i].name = name
                        /\ \A j \in 1..(i - 1) : assets[j].name # name])
    ELSE None

\* A variant of InsertByLen that puts a before the elements of its length.
RECURSIVE InsertByLen_Unstable(_, _)
InsertByLen_Unstable(s, a) ==
    IF Len(s) = 0 THEN <<a>>
    ELSE IF Len(s[1].name) < Len(a.name)
    THEN <<s[1]>> \o InsertByLen_Unstable(Tail(s), a)
    ELSE <<a>> \o s

\* Insert a into the sequence s, sorted by name length, after every element
\* that is not longer (the sort is stable).
RECURSIVE InsertByLen(_, _)
InsertByLen(s, a) ==
    IF Len(s) = 0 THEN <<a>>
    ELSE IF Len(s[1].name) <= Len(a.name) THEN <<s[1]>> \o InsertByLen(Tail(s), a)
    ELSE <<a>> \o s

\* slice::sort_by(|a, b| a.name.len().cmp(&b.name.len()))
RECURSIVE SortByNameLen(_)
SortByNameLen(s) ==
    IF Len(s) = 0 THEN <<>>
    ELSE InsertByLen(SortByNameLen(SubSeq(s, 1, Len(s) - 1)), s[Len(s)])

OsStr(os) ==
    CASE os = "Mac" -> "darwin"
      [] os = "Linux" -> "linux"
      [] os = "Windows" -> "windows"

ArchStr(arch) ==
    CASE arch = "Aarch64" -> "arm64"
      [] arch = "X8664" -> "amd64"
      [] arch = "X86" -> "x86"

OsTokens(os) ==
    CASE os = "Mac" -> {"darwin", "macos", "mac"}
      [] os = "Linux" -> {"linux"}
      [] os = "Windows" -> {"windows", "win"}

ArchTokens(arch) ==
    CASE arch = "Aarch64" -> {"arm64", "aarch64"}
      [] arch = "X8664" -> {"x86_64", "x8664", "amd64"}
      [] arch = "X86" -> {"x86", "386", "i386"}

\* The canonical asset name of select_release_asset
ExpectedAssetName(version, os, arch) ==
    IF os = "Windows"
    THEN "loom-core_" \o version \o "_" \o OsStr(os) \o "_" \o ArchStr(arch) \o ".zip"
    ELSE "loom-core_" \o version \o "_" \o OsStr(os) \o "_" \o ArchStr(arch) \o ".tar.gz"

\* The filter closure of select_release_asset
HeuristicMatch(a, os, arch) ==
    LET n == to_ascii_lowercase(a.name)
        looks_like_archive ==
            EndsWith(n, ".tar.gz") \/ EndsWith(n, ".tgz") \/ EndsWith(n, ".zip")
    IN  /\ looks_like_archive
        /\ \E t \in OsTokens(os) : Contains(n, t)
        /\ \E t \in ArchTokens(arch) : Contains(n, t)
        /\ Contains(n, "loom")

\* assets.iter().filter(..).collect() of select_release_asset
RECURSIVE HeuristicMatches(_, _, _)
HeuristicMatches(assets, os, arch) ==
    IF Len(assets) = 0 THEN <<>>
    ELSE (IF HeuristicMatch(assets[1], os, arch) THEN <<assets[1]>> ELSE <<>>)
            \o HeuristicMatches(Tail(assets), os, arch)

\* Variants of select_release_asset: one without the canonical name, one
\* that goes on to the canonical name and the heuristic when no asset has
\* the override's name, and one that settles for the first asset when
\* nothing matches.
select_release_asset_HeuristicOnly(assets, version, os, arch, exact_name_override) ==
    LET override_name ==
            IF IsSome(exact_name_override) /\ Len(Trim(Unwrap(exact_name_override))) > 0
            THEN Some(Trim(Unwrap(exact_name_override)))
            ELSE None
        matches == SortByNameLen(HeuristicMatches(assets, os, arch))
    IN  IF IsSome(override_name) THEN FindAsset(assets, Unwrap(override_name))
        ELSE IF Len(matches) > 0 THEN Some(matches[1])
        ELSE None

select_release_asset_OverrideFallsBack(assets, version, os, arch, exact_name_override) ==
    LET override_name ==
            IF IsSome(exact_name_override) /\ Len(Trim(Unwrap(exact_name_override))) > 0
            THEN Some(Trim(Unwrap(exact_name_override)))
            ELSE None
        expected == ExpectedAssetName(version, os, arch)
        matches == SortByNameLen(HeuristicMatches(assets, os, arch))
    IN  IF IsSome(override_name) /\ IsSome(FindAsset(assets, Unwrap(override_name)))
        THEN FindAsset(assets, Unwrap(override_name))
        ELSE IF IsSome(FindAsset(assets, expected)) THEN FindAsset(assets, expected)
        ELSE IF Len(matches) > 0 THEN Some(matches[1])
        ELSE None

select_release_asset_FirstWhenNoMatch(assets, version, os, arch, exact_name_override) ==
    LET override_name ==
            IF IsSome(exact_name_override) /\ Len(Trim(Unwrap(exact_name_override))) > 0
            THEN Some(Trim(Unwrap(exact_name_override)))
            ELSE None
        expected == ExpectedAssetName(version, os, arch)
        matches == SortByNameLen(HeuristicMatches(assets, os, arch))
    IN  IF IsSome(override_name) THEN FindAsset(assets, Unwrap(override_name))
        ELSE IF IsSome(FindAsset(assets, expected)) THEN FindAsset(assets, expected)
        ELSE IF Len(matches) > 0 THEN Some(matches[1])
        ELSE IF Len(assets) > 0 THEN Some(assets[1])
        ELSE None

\* download::select_release_asset
select_release_asset(assets, version, os, arch, exact_name_override) ==
    LET override_name ==
            IF IsSome(exact_name_override) /\ Len(Trim(Unwrap(exact_name_override))) > 0
            THEN Some(Trim(Unwrap(exact_name_override)))
            ELSE None
        expected == ExpectedAssetName(version, os, arch)
        matches == SortByNameLen(HeuristicMatches(assets, os, arch))
    IN  IF IsSome(override_name) THEN FindAsset(assets, Unwrap(override_name))
        ELSE IF IsSome(FindAsset(assets, expected)) THEN FindAsset(assets, expected)
        ELSE IF Len(matches) > 0 THEN Some(matches[1])
        ELSE None

\* The ASCII characters of asset names, in byte order.
AsciiOrder == "-.0123456789ABCDEFGHIJKLMNOPQRSTUVWXYZ_abcdefghijklmnopqrstuvwxyz"

ByteRank(c) == CHOOSE i \in 1..Len(AsciiOrder) : CharAt(AsciiOrder, i) = c

\* str's Ord: a <= b, byte by byte, a prefix before its extensions.
RECURSIVE StrLessEq(_, _)
StrLessEq(a, b) ==
    IF Len(a) = 0 THEN TRUE
    ELSE IF Len(b) = 0 THEN FALSE
    ELSE IF CharAt(a, 1) = CharAt(b, 1)
    THEN StrLessEq(SubSeq(a, 2, Len(a)), SubSeq(b, 2, Len(b)))
    ELSE ByteRank(CharAt(a, 1)) < ByteRank(CharAt(b, 1))

RECURSIVE InsertName(_, _)
InsertName(s, a) ==
    IF Len(s) = 0 THEN <<a>>
    ELSE IF StrLessEq(s[1], a) THEN <<s[1]>> \o InsertName(Tail(s), a)
    ELSE <<a>> \o s

\* names.sort()
RECURSIVE SortNames(_)
SortNames(s) ==
    IF Len(s) = 0 THEN <<>>
    ELSE InsertName(SortNames(SubSeq(s, 1, Len(s) - 1)), s[Len(s)])

\* [&str]::join(sep)
RECURSIVE JoinNames(_, _)
JoinNames(s, sep) ==
    IF Len(s) = 0 THEN ""
    ELSE IF Len(s) = 1 THEN s[1]
    ELSE s[1] \o sep \o JoinNames(Tail(s), sep)

\* A variant of summarize_asset_names that does not sort the names.
summarize_asset_names_Unsorted(assets, max_items) ==
    LET names == [i \in 1..Len(assets) |-> assets[i].name]
        kept == SubSeq(names, 1, IF max_items < Len(names) THEN max_items ELSE Len(names))
        out == JoinNames(kept, ",")
    IN  IF Len(assets) > max_items THEN out \o ",..." ELSE out

\* download::summarize_asset_names
summarize_asset_names(assets, max_items) ==
    LET names == SortNames([i \in 1..Len(assets) |-> assets[i].name])
        kept == SubSeq(names, 1, IF max_items < Len(names) THEN max_items ELSE Len(names))
        out == JoinNames(kept, ",")
    IN  IF Len(assets) > max_items THEN out \o ",..." ELSE out

\* A variant of infer_downloaded_file_type that tests .gz first.
infer_downloaded_file_type_GzFirst(asset_name) ==
    LET name == to_ascii_lowercase(asset_name)
    IN  IF EndsWith(name, ".gz") THEN "Gzip"
        ELSE IF EndsWith(name, ".tar.gz") \/ EndsWith(name, ".tgz") THEN "GzipTar"
        ELSE IF EndsWith(name, ".zip") THEN "Zip"
        ELSE "Uncompressed"

\* download::infer_downloaded_file_type
infer_downloaded_file_type(asset_name) ==
    LET name == to_ascii_lowercase(asset_name)
    IN  IF EndsWith(name, ".tar.gz") \/ EndsWith(name, ".tgz") THEN "GzipTar"
        ELSE IF EndsWith(name, ".zip") THEN "Zip"
        ELSE IF EndsWith(name, ".gz") THEN "Gzip"
        ELSE "Uncompressed"

---------------------------------------------------------------------------
(* The filesystem is the set of the paths of its regular files; a directory *)
(* exists when a file lies below it.                                        *)

\* The files of fs below dir whose directory walk(dir, 0) reaches: the
\* directory holding the file is nested at most MaxWalkDepth levels below dir.
MaxWalkDepth == 8

ReachedFiles(files, dir) ==
    {p \in files :
        /\ StartsWith(p, dir \o "/")
        /\ CountChar(SubSeq(p, Len(dir) + 2, Len(p)), "/") <= MaxWalkDepth}

\* download::find_file_named: the set of the results walk(root, names, 0) can
\* return.  fs::read_dir yields the entries of a directory in an order the
\* platform chooses, so each matching file within the depth bound can be the
\* first one met; the result is None exactly when there is none.
find_file_named(files, root, names) ==
    LET found == {p \in ReachedFiles(files, root) : FileName(p) \in names}
    IN  IF found = {} THEN {None} ELSE {Some(p) : p \in found}

---------------------------------------------------------------------------
(* The state.                                                               *)

Threads == {"t1", "t2"}

VARIABLES
    platform,   \* zed::current_platform() of the host: [os, arch]
    callers,    \* the threads of the host process that call into the extension
    installs,   \* LoomExtension.installs: cache key -> LoomInstall
    lock,       \* holder of the installs mutex: None or Some(thread)
    files,      \* the filesystem: the paths of the files that exist
    clock,      \* SystemTime::now(), in seconds since the epoch
    ticks,      \* number of times the clock has advanced
    deletes,    \* number of files removed behind the extension's back
    pc,         \* per thread: the position in its call
    req,        \* per thread: the inputs of its call
    loc,        \* per thread: the locals of ensure_loom_install
    hist,       \* per thread: the operations its call has performed so far
    ret,        \* per thread: the value its call returned
    sel,        \* inputs and result of a pure function under check
    inserted_at \* history: cache key -> the clock when its record was inserted

vars == <<platform, callers, installs, lock, files, clock, ticks, deletes,
          pc, req, loc, hist, ret, sel, inserted_at>>

LATEST_RELEASE_TTL == 6 * 60 * 60
\* A variant of RETRY_BACKOFF_MS with the delays in descending order.
RETRY_BACKOFF_MS_Descending == <<2000, 1000, 500>>

RETRY_BACKOFF_MS == <<500, 1000, 2000>>

MaxTicks == 2
MaxDeletes == 1

Ok(v) == [ok |-> TRUE, val |-> v]
Err(e) == [ok |-> FALSE, val |-> e]

EmptyMap == [k \in {} |-> None]

\* HashMap::insert
MapInsert(m, k, v) ==
    [x \in (DOMAIN m) \cup {k} |-> IF x = k THEN v ELSE m[x]]

\* HashMap::get
MapGet(m, k) == IF k \in DOMAIN m THEN Some(m[k]) ELSE None

\* Path::exists
exists(path) == path \in files

\* download::unix_now_secs
unix_now_secs == clock

\* u64::saturating_sub
saturating_sub(a, b) == IF a >= b THEN a - b ELSE 0

NoLocals ==
    [settings |-> DefaultDownloadSettings, base_env |-> <<>>,
     key |-> "", now |-> 0, is_latest |-> FALSE, attempt |-> 0, last_err |-> "",
     release |-> None, asset |-> None, loom_path |-> None, loomd_path |-> None,
     install |-> None, result |-> None]

NoHistory == [lookups |-> <<>>, events |-> <<>>, sleeps |-> <<>>]

NoRequest == [entry |-> "none"]

Did(t, e) == [hist EXCEPT ![t].events = Append(@, e)]

---------------------------------------------------------------------------
(* What the host can answer.                                                *)

Asset(name) ==
    [name |-> name, download_url |-> "https://example.invalid/" \o name]

\* The asset lists a release of the given version may carry.
ReleaseAssetLists(version) ==
    { << Asset("loom-core_" \o version \o "_linux_amd64.tar.gz"),
         Asset("loom-core_" \o version \o "_windows_amd64.zip") >>,
      << Asset("loom-core_" \o version \o "_darwin_arm64.tar.gz") >> }

LatestVersions == {"v2"}

\* The results zed::github_release_by_tag_name(repo, tag) can give.
github_release_by_tag_name(repo_ref, tag) ==
    {Err("network error"), Err("release not found")}
        \cup {Ok([version |-> tag, assets |-> a]) : a \in ReleaseAssetLists(tag)}

\* The results zed::latest_github_release(repo, options) can give.
latest_github_release(repo_ref) ==
    {Err("network error"), Err("no release found")}
        \cup UNION {{Ok([version |-> v, assets |-> a]) : a \in ReleaseAssetLists(v)} :
                        v \in LatestVersions}

\* The files an archive may hold, relative to the directory it is unpacked in.
ArchiveLayouts == {{"loom", "loomd"}, {"loom"}, {"loomd"}}

\* The files zed::download_file leaves on success: an archive is unpacked
\* into the directory dest, any other file is written to dest itself.
DownloadedFiles(dest, file_type, layout) ==
    IF file_type \in {"GzipTar", "Zip"}
    THEN {Join(dest, rel) : rel \in layout}
    ELSE {dest}

---------------------------------------------------------------------------
(* The resolution entry points, up to the call of ensure_loom_install.  A   *)
(* prelude gives what the entry point does before it either returns         *)
(* (install = FALSE, out = the value returned) or calls ensure_loom_install *)
(* with settings, keeping base_env for the return.                          *)

Return(out) ==
    [install |-> FALSE, out |-> out,
     settings |-> DefaultDownloadSettings, base_env |-> <<>>, lookups |-> <<>>]

Install(settings, base_env) ==
    [install |-> TRUE, out |-> Err(""), settings |-> settings, base_env |-> base_env,
     lookups |-> <<>>]

\* The prelude d, having searched the host for a binary by the given lookups.
Looked(d, lookups) == [d EXCEPT !.lookups = lookups]

Command(program, env) == [program |-> program, env |-> env]

\* A variant of ExplicitPath that hands the configured path on as it is.
ExplicitPath_Untrimmed(path) ==
    IF IsSome(path) /\ Len(Trim(Unwrap(path))) > 0 THEN path ELSE None

\* cmd.path.as_ref().filter(|p| !p.trim().is_empty()) and path.trim(), lib.rs;
\* command_path.map(|s| s.trim().to_string()).filter(|s| !s.is_empty()),
\* dispatch.rs.
ExplicitPath(path) ==
    IF IsSome(path) /\ Len(Trim(Unwrap(path))) > 0
    THEN Some(Trim(Unwrap(path)))
    ELSE None

\* LoomExtension::context_server_command, lib.rs, to its call of
\* ensure_loom_install.  r.settings is Err when
\* ContextServerSettings::for_project fails.
context_server_command(r) ==
    IF r.server_id # "loom"
    THEN Return(Err("unknown context server id (expected \"loom\")"))
    ELSE IF ~r.settings.ok THEN Return(Err(r.settings.val))
    ELSE
      LET command == r.settings.val.command
          env_from_settings ==
              IF IsSome(command) /\ IsSome(Unwrap(command).env)
              THEN env_map_to_vec(Unwrap(Unwrap(command).env))
              ELSE <<>>
          explicit ==
              IF IsSome(command) THEN ExplicitPath(Unwrap(command).path) ELSE None
          dl == r.settings.val.download
      IN  IF IsSome(explicit)
          THEN Return(Ok(Command(Unwrap(explicit), env_from_settings)))
          ELSE IF enabled(dl) THEN Install(dl, env_from_settings)
          ELSE Return(Ok(Command("loom", env_from_settings)))

\* The base environment of both resolve_binary functions: the worktree's
\* shell environment, or the process's PATH when that is empty.
BaseEnv(worktree, process_path) ==
    LET shell == IF IsSome(worktree)
                 THEN shell_env_to_vec(Unwrap(worktree).shell_env)
                 ELSE <<>>
    IN  IF Len(shell) = 0 /\ IsSome(process_path)
        THEN <<<<"PATH", Unwrap(process_path)>>>>
        ELSE shell

\* wt.which("loom") of the worktree, when there is one
WorktreeWhich(worktree) ==
    IF IsSome(worktree) THEN Unwrap(worktree).which ELSE None

\* The lookup `if let Some(wt) = worktree { wt.which("loom") }` performs.
WhichLookup(worktree) == IF IsSome(worktree) THEN <<"worktree_which">> ELSE <<>>

\* resolve_binary of lib.rs
lib_resolve_binary(r) ==
    LET base_env == BaseEnv(r.worktree, r.process_path)
        download_settings == DefaultDownloadSettings
    IN  Looked(IF IsSome(WorktreeWhich(r.worktree))
               THEN Return(Ok(Command(Unwrap(WorktreeWhich(r.worktree)), base_env)))
               ELSE IF enabled(download_settings)
               THEN Install(download_settings, base_env)
               ELSE Return(Ok(Command("loom", base_env))),
               WhichLookup(r.worktree))

\* for (k, v) in &rt.command_env { upsert_env(&mut base_env, k, v) }
RECURSIVE UpsertAll(_, _)
UpsertAll(env, pairs) ==
    IF Len(pairs) = 0 THEN env
    ELSE UpsertAll(upsert_env(env, pairs[1][1], pairs[1][2]), Tail(pairs))

WellKnownLocations(home) ==
    <<home \o "/.local/bin/loom", "/usr/local/bin/loom", "/opt/homebrew/bin/loom">>

\* dispatch::resolve_loom_path_from_host.  host.which is Some of the exit
\* status and the output of `which loom` when the command could be run;
\* host.present are the paths that exist outside the install directory.
resolve_loom_path_from_host(host) ==
    LET out == IF IsSome(host.which) /\ Unwrap(host.which).status = Some(0)
               THEN Trim(Unwrap(host.which).stdout)
               ELSE ""
        candidates == WellKnownLocations(UnwrapOr(host.home, ""))
        hits == {i \in 1..Len(candidates) : candidates[i] \in host.present}
    IN  IF Len(out) > 0 THEN out
        ELSE IF hits # {} THEN candidates[CHOOSE i \in hits : \A j \in hits : i <= j]
        ELSE "loom"

\* resolve_binary of dispatch.rs
resolve_binary(r) ==
    LET base_env ==
            IF IsSome(r.runtime_settings)
            THEN UpsertAll(BaseEnv(r.worktree, r.process_path),
                           Unwrap(r.runtime_settings).command_env)
            ELSE BaseEnv(r.worktree, r.process_path)
        explicit ==
            IF IsSome(r.runtime_settings)
            THEN ExplicitPath(Unwrap(r.runtime_settings).command_path)
            ELSE None
        local_path == resolve_loom_path_from_host(r.host)
        have_local == local_path # "loom"
        download_settings ==
            IF IsSome(r.runtime_settings)
            THEN Unwrap(r.runtime_settings).extension.download
            ELSE DefaultDownloadSettings
        host_lookups == WhichLookup(r.worktree) \o <<"resolve_loom_path_from_host">>
    IN  IF IsSome(explicit) THEN Return(Ok(Command(Unwrap(explicit), base_env)))
        ELSE IF IsSome(WorktreeWhich(r.worktree))
        THEN Looked(Return(Ok(Command(Unwrap(WorktreeWhich(r.worktree)), base_env))),
                    WhichLookup(r.worktree))
        ELSE IF have_local
        THEN Looked(Return(Ok(Command(local_path, base_env))), host_lookups)
        ELSE IF enabled(download_settings)
        THEN Looked(Install(download_settings, base_env), host_lookups)
        ELSE Looked(Return(Ok(Command("loom", base_env))), host_lookups)

---------------------------------------------------------------------------
(* The calls the model makes.                                               *)

DownloadSettings(en, tag) ==
    [enabled |-> en, repo |-> None, tag |-> tag, asset |-> None]

Tags == {None, Some(" "), Some("v1")}

NoHost == [which |-> None, home |-> None, present |-> {}]
HostWithLoom ==
    [which |-> Some([status |-> Some(0), stdout |-> "/usr/bin/loom\n"]),
     home |-> Some("/home/u"), present |-> {}]
HostWellKnown ==
    [which |-> Some([status |-> Some(1), stdout |-> ""]),
     home |-> Some("/home/u"), present |-> {"/opt/homebrew/bin/loom"}]

EnvMapA == {<<"PATH", "/usr/bin">>, <<"HOME", "/home/u">>}
EnvA == <<<<"HOME", "/home/u">>, <<"PATH", "/usr/bin">>>>
EnvBlankPath == <<<<"PATH", " ">>>>

Request(entry, server_id, settings, worktree, runtime_settings, host, process_path) ==
    [entry |-> entry, server_id |-> server_id, settings |-> settings,
     worktree |-> worktree, runtime_settings |-> runtime_settings,
     host |-> host, process_path |-> process_path]

CscRequest(server_id, settings, host, process_path) ==
    Request("context_server_command", server_id, settings, None, None, host,
            process_path)

CscSettings(command, download) == Ok([command |-> command, download |-> download])

CscRequests ==
    {CscRequest("other", CscSettings(None, DefaultDownloadSettings), NoHost, None),
     CscRequest("loom", Err("settings unavailable"), NoHost, None)}
    \cup {CscRequest("loom",
                     CscSettings(Some([path |-> Some(p), env |-> Some(EnvMapA)]),
                                 DefaultDownloadSettings),
                     NoHost, None) :
            p \in {" /opt/loom/bin/loom ", "/opt/loom/bin/loom"}}
    \cup {CscRequest("loom", CscSettings(c, DownloadSettings(en, tag)), h, pp) :
            c \in {None, Some([path |-> Some("  "), env |-> Some(EnvMapA)])},
            en \in {None, Some(FALSE)},
            tag \in Tags,
            h \in {NoHost, HostWithLoom},
            pp \in {Some("/bin")}}
    \cup {CscRequest("loom", CscSettings(None, DefaultDownloadSettings), NoHost, None)}

LibRequests ==
    {Request("lib_resolve_binary", "", Err(""), w, None,
             IF IsSome(WorktreeWhich(w)) THEN HostWithLoom ELSE NoHost, pp) :
        w \in {None,
               Some([shell_env |-> <<>>, which |-> None]),
               Some([shell_env |-> EnvA, which |-> None]),
               Some([shell_env |-> EnvA, which |-> Some("/usr/bin/loom")])},
        pp \in {None, Some("/bin")}}

RuntimeSettings(command_path, download) ==
    [command_path |-> command_path,
     command_env |-> <<<<"LOOM_HOME", "/l">>>>,
     extension |-> [download |-> download]]

DispatchRequests ==
    {Request("resolve_binary", "", Err(""), w, rt, h, Some("/bin")) :
        w \in {None,
               Some([shell_env |-> EnvBlankPath, which |-> None]),
               Some([shell_env |-> EnvA, which |-> Some("/usr/bin/loom")])},
        rt \in {None,
                Some(RuntimeSettings(None, DownloadSettings(None, Some("v1")))),
                Some(RuntimeSettings(Some(" /opt/loom/bin/loom "), DefaultDownloadSettings)),
                Some(RuntimeSettings(Some(" "), DownloadSettings(Some(FALSE), None)))},
        h \in {NoHost, HostWithLoom, HostWellKnown}}

---------------------------------------------------------------------------
(* Actions.                                                                 *)

\* A thread enters an entry point with request r, whose prelude gave d.
Start(t, r, d) ==
    /\ t \in callers
    /\ pc[t] \in {"idle", "done"}
    /\ req' = [req EXCEPT ![t] = r]
    /\ hist' = [hist EXCEPT ![t] = [NoHistory EXCEPT !.lookups = d.lookups]]
    /\ loc' = [loc EXCEPT ![t] =
                 [NoLocals EXCEPT !.settings = d.settings, !.base_env = d.base_env]]
    /\ pc' = [pc EXCEPT ![t] = IF d.install THEN "ensure" ELSE "done"]
    /\ ret' = [ret EXCEPT ![t] = IF d.install THEN None ELSE Some(d.out)]
    /\ UNCHANGED <<platform, callers, installs, lock, files, clock, ticks,
                   deletes, sel,
                   inserted_at>>

\* The host calls an entry point with one of the given requests.
CallContextServerCommand(t, requests) ==
    \E r \in requests : Start(t, r, context_server_command(r))

CallLibResolveBinary(t, requests) ==
    \E r \in requests : Start(t, r, lib_resolve_binary(r))

CallResolveBinary(t, requests) ==
    \E r \in requests : Start(t, r, resolve_binary(r))

\* What every step of ensure_loom_install leaves alone unless it says so.
Goto(t, label) == pc' = [pc EXCEPT ![t] = label]

SetLoc(t, new) == loc' = [loc EXCEPT ![t] = new]

\* ensure_loom_install fails with error e: the `?` returns it to the caller.
Fail(t, e) ==
    /\ SetLoc(t, [loc[t] EXCEPT !.result = Some(Err(e))])
    /\ Goto(t, "ensure_ret")

\* settings.tag.as_ref().map(|t| t.trim().is_empty()).unwrap_or(true)
IsLatest(settings) ==
    IF IsSome(settings.tag) THEN Len(Trim(Unwrap(settings.tag))) = 0 ELSE TRUE

\* ensure_loom_install, download.rs 51-58: platform, key, now, is_latest.
EnsureBegin(t) ==
    /\ pc[t] = "ensure"
    /\ SetLoc(t, [loc[t] EXCEPT
                    !.key = install_key(loc[t].settings, platform.os, platform.arch),
                    !.now = unix_now_secs,
                    !.is_latest = IsLatest(loc[t].settings)])
    /\ Goto(t, "lock_lookup")
    /\ UNCHANGED <<platform, callers, installs, lock, files, clock, ticks,
                   deletes, req, hist, ret, sel,
                   inserted_at>>

\* installs.lock() before the lookup, download.rs 61-63.  No code panics
\* while it holds the mutex, so the mutex is never poisoned.
LockForLookup(t) ==
    /\ pc[t] = "lock_lookup"
    /\ lock = None
    /\ lock' = Some(t)
    /\ Goto(t, "cache_lookup")
    /\ UNCHANGED <<platform, callers, installs, files, clock, ticks, deletes,
                   req, loc, hist, ret, sel,
                   inserted_at>>

\* Variants of CacheUsable that the properties of the cache must tell from it:
\* one that never reuses a record of the latest release, one that reuses
\* only records that carry a resolution time, and one that does not look at
\* the filesystem.
CacheUsable_LatestNeverReused(found, is_latest, now) ==
    exists(found.loom_path) /\ ~is_latest

CacheUsable_NeedsResolutionTime(found, is_latest, now) ==
    exists(found.loom_path) /\ IsSome(found.resolved_at_unix_secs)

CacheUsable_IgnoresMissingFile(found, is_latest, now) == TRUE

\* The decision of download.rs 65-76 on a record found under the key:
\* TRUE when the record is returned as it is.
CacheUsable(found, is_latest, now) ==
    IF exists(found.loom_path)
    THEN IF ~is_latest THEN TRUE
         ELSE IF IsSome(found.resolved_at_unix_secs)
                 /\ saturating_sub(now, Unwrap(found.resolved_at_unix_secs))
                        < LATEST_RELEASE_TTL
              THEN TRUE
              ELSE TRUE
    ELSE FALSE

\* A variant of CacheLookup that keeps the mutex after a miss.
CacheLookup_KeepsLockOnMiss(t) ==
    /\ pc[t] = "cache_lookup"
    /\ lock = Some(t)
    /\ hist' = Did(t, "cache_get")
    /\ LET found == MapGet(installs, loc[t].key)
       IN  IF IsSome(found) /\ CacheUsable(Unwrap(found), loc[t].is_latest, loc[t].now)
           THEN /\ SetLoc(t, [loc[t] EXCEPT !.result = Some(Ok(Unwrap(found)))])
                /\ Goto(t, "ensure_ret")
                /\ lock' = None
           ELSE /\ Goto(t, "fetch")
                /\ UNCHANGED <<loc, lock>>
    /\ UNCHANGED <<platform, callers, installs, files, clock, ticks, deletes,
                   req, ret, sel,
                   inserted_at>>

\* A variant of CacheLookup that stamps the record it returns with the time
\* of the call.
CacheLookup_RefreshesOnHit(t) ==
    /\ pc[t] = "cache_lookup"
    /\ lock = Some(t)
    /\ lock' = None
    /\ hist' = Did(t, "cache_get")
    /\ LET found == MapGet(installs, loc[t].key)
       IN  IF IsSome(found) /\ CacheUsable(Unwrap(found), loc[t].is_latest, loc[t].now)
           THEN LET fresh == [Unwrap(found) EXCEPT
                                !.resolved_at_unix_secs = Some(loc[t].now)]
                IN  /\ installs' = MapInsert(installs, loc[t].key, fresh)
                    /\ SetLoc(t, [loc[t] EXCEPT !.result = Some(Ok(fresh))])
                    /\ Goto(t, "ensure_ret")
           ELSE /\ Goto(t, "fetch")
                /\ UNCHANGED <<loc, installs>>
    /\ UNCHANGED <<platform, callers, files, clock, ticks, deletes,
                   req, ret, sel,
                   inserted_at>>

\* The lookup under the mutex, download.rs 64-78; the guard is dropped at
\* the return or at the end of the block.
CacheLookup(t) ==
    /\ pc[t] = "cache_lookup"
    /\ lock = Some(t)
    /\ lock' = None
    /\ hist' = Did(t, "cache_get")
    /\ LET found == MapGet(installs, loc[t].key)
       IN  IF IsSome(found) /\ CacheUsable(Unwrap(found), loc[t].is_latest, loc[t].now)
           THEN /\ SetLoc(t, [loc[t] EXCEPT !.result = Some(Ok(Unwrap(found)))])
                /\ Goto(t, "ensure_ret")
           ELSE /\ Goto(t, "fetch")
                /\ UNCHANGED loc
    /\ UNCHANGED <<platform, callers, installs, files, clock, ticks, deletes,
                   req, ret, sel,
                   inserted_at>>

\* The closure retry_with_backoff is given, download.rs 81-96: the results
\* one invocation can give.
ReleaseLookup(settings) ==
    IF IsSome(settings.tag) /\ Len(Trim(Unwrap(settings.tag))) > 0
    THEN github_release_by_tag_name(repo(settings), Trim(Unwrap(settings.tag)))
    ELSE latest_github_release(repo(settings))

\* A variant of RetryAfter that gives up at the first failure.
RetryAfter_Never(attempt, err) == FALSE

\* retry_with_backoff, download.rs 28-45: TRUE when a failure of the attempt
\* numbered attempt (0 for the first) is followed by a sleep and a retry.
RetryAfter(attempt, err) == attempt < Len(RETRY_BACKOFF_MS)

LookupHint == " (hint: check connectivity or pin a version with settings.download.tag)"

\* One invocation of the release lookup by retry_with_backoff, download.rs
\* 33-36 and 39-42, and the map_err of 97-102 when the last one failed.
\* errors are the failures the release host can answer with.
Fetch(t, errors) ==
    /\ pc[t] = "fetch"
    /\ hist' = Did(t, "release_lookup")
    /\ \E o \in {x \in ReleaseLookup(loc[t].settings) : x.ok \/ x.val \in errors} :
        IF o.ok
        THEN /\ SetLoc(t, [loc[t] EXCEPT !.release = Some(o.val), !.last_err = ""])
             /\ Goto(t, "select")
        ELSE IF RetryAfter(loc[t].attempt, o.val)
        THEN /\ SetLoc(t, [loc[t] EXCEPT !.last_err = o.val])
             /\ Goto(t, "sleep")
        ELSE Fail(t, o.val \o LookupHint)
    /\ UNCHANGED <<platform, callers, installs, lock, files, clock, ticks,
                   deletes, req, ret, sel,
                   inserted_at>>

\* thread::sleep(Duration::from_millis(delay_ms)), download.rs 37-38
Sleep(t) ==
    /\ pc[t] = "sleep"
    /\ hist' = [hist EXCEPT ![t].events = Append(@, "sleep"),
                            ![t].sleeps = Append(@, RETRY_BACKOFF_MS[loc[t].attempt + 1])]
    /\ SetLoc(t, [loc[t] EXCEPT !.attempt = @ + 1])
    /\ Goto(t, "fetch")
    /\ UNCHANGED <<platform, callers, installs, lock, files, clock, ticks,
                   deletes, req, ret, sel,
                   inserted_at>>

\* The number of asset names the error of download.rs 111-117 lists.
SummaryItems == 40

\* download.rs 104-118
SelectAsset(t) ==
    /\ pc[t] = "select"
    /\ hist' = Did(t, "select_release_asset")
    /\ LET release == Unwrap(loc[t].release)
           asset == select_release_asset(release.assets, release.version,
                                         platform.os, platform.arch,
                                         loc[t].settings.asset)
       IN  IF IsSome(asset)
           THEN /\ SetLoc(t, [loc[t] EXCEPT !.asset = asset])
                /\ Goto(t, "mkdir")
           ELSE Fail(t, "no matching release asset found for repo="
                            \o repo(loc[t].settings) \o " version=" \o release.version
                            \o " os=" \o platform.os \o " arch=" \o platform.arch
                            \o ". available_assets="
                            \o summarize_asset_names(release.assets, SummaryItems)
                            \o " (hint: override with settings.download.asset)")
    /\ UNCHANGED <<platform, callers, installs, lock, files, clock, ticks,
                   deletes, req, ret, sel,
                   inserted_at>>

\* PathBuf::from("loom-core").join(&release.version)
InstallDir(release) == Join("loom-core", release.version)

\* fs::create_dir_all(&install_dir), download.rs 120-121
CreateInstallDir(t, faults) ==
    /\ pc[t] = "mkdir"
    /\ hist' = Did(t, "create_dir_all")
    /\ \/ /\ Goto(t, "download")
          /\ UNCHANGED loc
       \/ /\ faults
          /\ Fail(t, "create_dir_all failed")
    /\ UNCHANGED <<platform, callers, installs, lock, files, clock, ticks,
                   deletes, req, ret, sel,
                   inserted_at>>

\* A variant of Download that tries a second time after a failure.
Download_RetriesOnce(t, layouts, faults) ==
    /\ pc[t] = "download"
    /\ hist' = Did(t, "download_file")
    /\ LET asset == Unwrap(loc[t].asset)
           file_type == infer_downloaded_file_type(asset.name)
           dest_file == Join(InstallDir(Unwrap(loc[t].release)), asset.name)
       IN  \/ \E layout \in layouts :
                /\ files' = files \cup DownloadedFiles(dest_file, file_type, layout)
                /\ Goto(t, "locate")
                /\ UNCHANGED loc
           \/ /\ faults
              /\ IF \E i \in 1..Len(hist[t].events) : hist[t].events[i] = "download_file"
                 THEN Fail(t, "download failed")
                 ELSE Goto(t, "download") /\ UNCHANGED loc
              /\ UNCHANGED files
    /\ UNCHANGED <<platform, callers, installs, lock, clock, ticks, deletes,
                   req, ret, sel,
                   inserted_at>>

\* zed::download_file, download.rs 123-126
Download(t, layouts, faults) ==
    /\ pc[t] = "download"
    /\ hist' = Did(t, "download_file")
    /\ LET asset == Unwrap(loc[t].asset)
           file_type == infer_downloaded_file_type(asset.name)
           dest_file == Join(InstallDir(Unwrap(loc[t].release)), asset.name)
       IN  \/ \E layout \in layouts :
                /\ files' = files \cup DownloadedFiles(dest_file, file_type, layout)
                /\ Goto(t, "locate")
                /\ UNCHANGED loc
           \/ /\ faults
              /\ Fail(t, "download failed")
              /\ UNCHANGED files
    /\ UNCHANGED <<platform, callers, installs, lock, clock, ticks, deletes,
                   req, ret, sel,
                   inserted_at>>

LoomName(os) == IF os = "Windows" THEN "loom.exe" ELSE "loom"
LoomdName(os) == IF os = "Windows" THEN "loomd.exe" ELSE "loomd"

\* A variant of Locate that fails when loomd is not found either.
Locate_RequiresBoth(t) ==
    /\ pc[t] = "locate"
    /\ hist' = Did(t, "find_file_named")
    /\ LET install_dir == InstallDir(Unwrap(loc[t].release))
       IN  \E loom_path \in find_file_named(files, install_dir,
                                            {LoomName(platform.os), "loom"}) :
           \E loomd_path \in find_file_named(files, install_dir,
                                             {LoomdName(platform.os), "loomd"}) :
             IF IsSome(loom_path) /\ IsSome(loomd_path)
             THEN /\ SetLoc(t, [loc[t] EXCEPT !.loom_path = loom_path,
                                              !.loomd_path = loomd_path])
                  /\ Goto(t, "chmod")
             ELSE Fail(t, "download succeeded but could not find "
                            \o LoomName(platform.os) \o " under " \o install_dir)
    /\ UNCHANGED <<platform, callers, installs, lock, files, clock, ticks,
                   deletes, req, ret, sel,
                   inserted_at>>

\* The two searches of the install directory, download.rs 128-140
Locate(t) ==
    /\ pc[t] = "locate"
    /\ hist' = Did(t, "find_file_named")
    /\ LET install_dir == InstallDir(Unwrap(loc[t].release))
       IN  \E loom_path \in find_file_named(files, install_dir,
                                            {LoomName(platform.os), "loom"}) :
             IF IsSome(loom_path)
             THEN \E loomd_path \in find_file_named(files, install_dir,
                                                    {LoomdName(platform.os), "loomd"}) :
                    /\ SetLoc(t, [loc[t] EXCEPT !.loom_path = loom_path,
                                                !.loomd_path = loomd_path])
                    /\ Goto(t, "chmod")
             ELSE Fail(t, "download succeeded but could not find "
                            \o LoomName(platform.os) \o " under " \o install_dir)
    /\ UNCHANGED <<platform, callers, installs, lock, files, clock, ticks,
                   deletes, req, ret, sel,
                   inserted_at>>

\* A variant of NewInstall that stamps every record with the time.
NewInstall_AlwaysStamped(release, loom_path, loomd_path, is_latest, now) ==
    [release_version |-> release.version,
     loom_path |-> loom_path,
     loomd_path |-> loomd_path,
     bin_dir |-> ParentOrDot(loom_path),
     resolved_at_unix_secs |-> Some(now)]

\* The record built at download.rs 151-163
NewInstall(release, loom_path, loomd_path, is_latest, now) ==
    [release_version |-> release.version,
     loom_path |-> loom_path,
     loomd_path |-> loomd_path,
     bin_dir |-> ParentOrDot(loom_path),
     resolved_at_unix_secs |-> IF is_latest THEN Some(now) ELSE None]

\* zed::make_file_executable on the binaries found (not on Windows), and the
\* record, download.rs 142-163
MakeExecutable(t, faults) ==
    /\ pc[t] = "chmod"
    /\ \/ /\ hist' = IF platform.os # "Windows"
                     THEN Did(t, "make_file_executable") ELSE hist
          /\ SetLoc(t, [loc[t] EXCEPT !.install =
                          Some(NewInstall(Unwrap(loc[t].release),
                                          Unwrap(loc[t].loom_path), loc[t].loomd_path,
                                          loc[t].is_latest, loc[t].now))])
          /\ Goto(t, "lock_insert")
       \/ /\ faults
          /\ platform.os # "Windows"
          /\ hist' = Did(t, "make_file_executable")
          /\ Fail(t, "make_file_executable failed")
    /\ UNCHANGED <<platform, callers, installs, lock, files, clock, ticks,
                   deletes, req, ret, sel,
                   inserted_at>>

\* A variant of LockForInsert that does not wait for the mutex.
LockForInsert_NoWait(t) ==
    /\ pc[t] = "lock_insert"
    /\ lock' = Some(t)
    /\ Goto(t, "insert")
    /\ UNCHANGED <<platform, callers, installs, files, clock, ticks, deletes,
                   req, loc, hist, ret, sel,
                   inserted_at>>

\* installs.lock() before the insert, download.rs 165-167
LockForInsert(t) ==
    /\ pc[t] = "lock_insert"
    /\ lock = None
    /\ lock' = Some(t)
    /\ Goto(t, "insert")
    /\ UNCHANGED <<platform, callers, installs, files, clock, ticks, deletes,
                   req, loc, hist, ret, sel,
                   inserted_at>>

\* A variant of Insert that stores the record and then reports a failure.
Insert_ThenFails(t) ==
    /\ pc[t] = "insert"
    /\ lock = Some(t)
    /\ lock' = None
    /\ installs' = MapInsert(installs, loc[t].key, Unwrap(loc[t].install))
    /\ inserted_at' = MapInsert(inserted_at, loc[t].key, clock)
    /\ hist' = Did(t, "cache_insert")
    /\ Fail(t, "failed after the insert")
    /\ UNCHANGED <<platform, callers, files, clock, ticks, deletes, req, ret, sel>>

\* installs.insert(key, install.clone()); Ok(install), download.rs 168-169
Insert(t) ==
    /\ pc[t] = "insert"
    /\ lock = Some(t)
    /\ lock' = None
    /\ installs' = MapInsert(installs, loc[t].key, Unwrap(loc[t].install))
    /\ hist' = Did(t, "cache_insert")
    /\ SetLoc(t, [loc[t] EXCEPT !.result = Some(Ok(Unwrap(loc[t].install)))])
    /\ Goto(t, "ensure_ret")
    /\ inserted_at' = MapInsert(inserted_at, loc[t].key, clock)
    /\ UNCHANGED <<platform, callers, files, clock, ticks, deletes, req, ret, sel>>

\* What the entry points return once ensure_loom_install has returned
\* result: lib.rs 84-101 and 176-180, dispatch.rs 101-105.
AfterInstall(result, base_env, os, process_path) ==
    IF result.ok
    THEN Ok(Command(result.val.loom_path,
                    with_path_prefix(base_env, result.val.bin_dir,
                                     current_path_sep(os), process_path)))
    ELSE Err(result.val)

EnsureReturn(t) ==
    /\ pc[t] = "ensure_ret"
    /\ ret' = [ret EXCEPT ![t] =
                 Some(AfterInstall(Unwrap(loc[t].result), loc[t].base_env,
                                   platform.os, req[t].process_path))]
    /\ Goto(t, "done")
    /\ SetLoc(t, NoLocals)
    /\ UNCHANGED <<platform, callers, installs, lock, files, clock, ticks,
                   deletes, req, hist, sel,
                   inserted_at>>

\* Time passes: the n-th advance of the clock is by steps[n] seconds, and by
\* one second once steps is used up.
TickSteps == <<LATEST_RELEASE_TTL - 1, 1>>

Tick(steps) ==
    /\ ticks < MaxTicks
    /\ clock' = clock + (IF ticks < Len(steps) THEN steps[ticks + 1] ELSE 1)
    /\ ticks' = ticks + 1
    /\ UNCHANGED <<platform, callers, installs, lock, files, deletes,
                   pc, req, loc, hist, ret, sel,
                   inserted_at>>

\* A file is removed by something other than the extension.
DeleteFile ==
    /\ deletes < MaxDeletes
    /\ \E p \in files : files' = files \ {p}
    /\ deletes' = deletes + 1
    /\ UNCHANGED <<platform, callers, installs, lock, clock, ticks,
                   pc, req, loc, hist, ret, sel,
                   inserted_at>>

HostPlatforms == {[os |-> "Linux", arch |-> "X8664"], [os |-> "Windows", arch |-> "X8664"]}

NoSel == [fn |-> "none"]

Init ==
    /\ platform \in HostPlatforms
    /\ callers = {"t1"}
    /\ installs = EmptyMap
    /\ lock = None
    /\ files = {}
    /\ clock = 0
    /\ ticks = 0
    /\ deletes = 0
    /\ pc = [t \in Threads |-> "idle"]
    /\ req = [t \in Threads |-> NoRequest]
    /\ loc = [t \in Threads |-> NoLocals]
    /\ hist = [t \in Threads |-> NoHistory]
    /\ ret = [t \in Threads |-> None]
    /\ sel = NoSel
    /\ inserted_at = EmptyMap

\* The steps of ensure_loom_install and the return to its caller, against
\* a release host that answers a lookup with one of errors, archives laid
\* out as one of layouts, and a filesystem that fails when faults.
Ensure(t, errors, layouts, faults) ==
    \/ EnsureBegin(t)
    \/ LockForLookup(t)
    \/ CacheLookup(t)
    \/ Fetch(t, errors)
    \/ Sleep(t)
    \/ SelectAsset(t)
    \/ CreateInstallDir(t, faults)
    \/ Download(t, layouts, faults)
    \/ Locate(t)
    \/ MakeExecutable(t, faults)
    \/ LockForInsert(t)
    \/ Insert(t)
    \/ EnsureReturn(t)

LookupErrors == {"network error", "release not found", "no release found"}

\* The calls of the cache specification: a latest and a pinned request.
CacheRequests ==
    {CscRequest("loom", CscSettings(None, DownloadSettings(None, tag)), NoHost, None) :
        tag \in {Some(" "), Some("v1")}}

Next ==
    \/ \E t \in Threads :
        \/ CallContextServerCommand(t, CacheRequests)
        \/ Ensure(t, LookupErrors, ArchiveLayouts, TRUE)
    \/ Tick(TickSteps)
    \/ DeleteFile

Spec == Init /\ [][Next]_vars

\* The steps of ensure_loom_install against a release host that answers
\* every lookup and a filesystem that does not fail.
EnsureReliable(t, layouts) ==
    \/ EnsureBegin(t)
    \/ LockForLookup(t)
    \/ CacheLookup(t)
    \/ Fetch(t, {})
    \/ SelectAsset(t)
    \/ CreateInstallDir(t, FALSE)
    \/ Download(t, layouts, FALSE)
    \/ Locate(t)
    \/ MakeExecutable(t, FALSE)
    \/ LockForInsert(t)
    \/ Insert(t)
    \/ EnsureReturn(t)

ResolveLayouts == {{"loom", "loomd"}, {"bin/loom"}}

\* The resolution of the binary: every entry point, called with every
\* request.
NextResolve ==
    \E t \in Threads :
        \/ CallContextServerCommand(t, CscRequests)
        \/ CallLibResolveBinary(t, LibRequests)
        \/ CallResolveBinary(t, DispatchRequests)
        \/ EnsureReliable(t, ResolveLayouts)

SpecResolve == Init /\ [][NextResolve]_vars

\* One thread calls for the latest and for a pinned release; the release
\* host answers every lookup, the archives hold loom, loomd or both, and the
\* filesystem does not fail.
NextLocate ==
    \E t \in Threads :
        \/ CallContextServerCommand(t, CacheRequests)
        \/ EnsureReliable(t, ArchiveLayouts)

SpecLocate == Init /\ [][NextLocate]_vars

\* Two threads of the host call context_server_command at any time, both
\* for the latest release of the default repository: the calls have one
\* cache key.
InitConcurrent ==
    /\ platform \in HostPlatforms
    /\ callers = Threads
    /\ installs = EmptyMap
    /\ lock = None
    /\ files = {}
    /\ clock = 0
    /\ ticks = 0
    /\ deletes = 0
    /\ pc = [t \in Threads |-> "idle"]
    /\ req = [t \in Threads |-> NoRequest]
    /\ loc = [t \in Threads |-> NoLocals]
    /\ hist = [t \in Threads |-> NoHistory]
    /\ ret = [t \in Threads |-> None]
    /\ sel = NoSel
    /\ inserted_at = EmptyMap

ConcurrentRequests ==
    {CscRequest("loom", CscSettings(None, DownloadSettings(None, None)), NoHost, None)}

\* The archive of the release holds loomd or not, as the host serves it.
ConcurrentLayouts == {{"loom", "loomd"}, {"loom"}}

NextConcurrent ==
    \E t \in Threads :
        \/ CallContextServerCommand(t, ConcurrentRequests)
        \/ EnsureReliable(t, ConcurrentLayouts)

SpecConcurrent == InitConcurrent /\ [][NextConcurrent]_vars

\* The two threads against a release host that also fails: a lookup can
\* fail and is retried after a sleep.
ContendErrors == {"network error"}

NextContend ==
    \E t \in Threads :
        \/ CallContextServerCommand(t, ConcurrentRequests)
        \/ Ensure(t, ContendErrors, ConcurrentLayouts, FALSE)

SpecContend == InitConcurrent /\ [][NextContend]_vars

\* The assets a release can carry, each with the platform it was built for.
PublishedAssets ==
    {[name |-> "loom-core_v1_linux_amd64.tar.gz", os |-> "Linux", arch |-> "X8664"],
     [name |-> "loom-core_v1_linux_arm64.tar.gz", os |-> "Linux", arch |-> "Aarch64"],
     [name |-> "loom-core_v1_darwin_amd64.tar.gz", os |-> "Mac", arch |-> "X8664"],
     [name |-> "loom-core_v1_windows_amd64.zip", os |-> "Windows", arch |-> "X8664"],
     [name |-> "loom-v1-Linux-x86_64.tgz", os |-> "Linux", arch |-> "X8664"],
     [name |-> "loom-v1-macos-aarch64.zip", os |-> "Mac", arch |-> "Aarch64"],
     [name |-> "loom-v1-linux-i386.tar.gz", os |-> "Linux", arch |-> "X86"],
     [name |-> "checksums.txt", os |-> "none", arch |-> "none"],
     [name |-> "loom-core_v1_windows_amd64.tar.gz", os |-> "Windows", arch |-> "X8664"],
     [name |-> "loom_linux_amd64.tgz", os |-> "Linux", arch |-> "X8664"],
     [name |-> "loom-linux-amd64.tgz", os |-> "Linux", arch |-> "X8664"]}

\* The platform the asset of the given name was built for.
PublishedFor(name) ==
    LET p == CHOOSE p \in PublishedAssets : p.name = name
    IN  [os |-> p.os, arch |-> p.arch]

MaxAssets == 2

AssetLists ==
    UNION {[1..n -> {Asset(p.name) : p \in PublishedAssets}] : n \in 0..MaxAssets}

SelectVersions == {"v1", "v2"}

NameOverrides == {None, Some(" "), Some(" checksums.txt ")}

\* The calls of select_release_asset.
SelectInputs ==
    {[fn |-> "select_release_asset", assets |-> a, version |-> v,
      os |-> os, arch |-> arch, exact_name_override |-> o,
      returned |-> FALSE, out |-> None] :
        a \in AssetLists, v \in SelectVersions, os \in OsSet, arch \in ArchSet,
        o \in NameOverrides}

InitSelect ==
    /\ platform \in HostPlatforms
    /\ callers = {}
    /\ installs = EmptyMap
    /\ lock = None
    /\ files = {}
    /\ clock = 0
    /\ ticks = 0
    /\ deletes = 0
    /\ pc = [t \in Threads |-> "idle"]
    /\ req = [t \in Threads |-> NoRequest]
    /\ loc = [t \in Threads |-> NoLocals]
    /\ hist = [t \in Threads |-> NoHistory]
    /\ ret = [t \in Threads |-> None]
    /\ sel \in SelectInputs
    /\ inserted_at = EmptyMap

\* select_release_asset is applied to its arguments.
SelectReleaseAsset ==
    /\ sel.fn = "select_release_asset"
    /\ ~sel.returned
    /\ sel' = [sel EXCEPT !.returned = TRUE,
                          !.out = select_release_asset(sel.assets, sel.version, sel.os,
                                                       sel.arch, sel.exact_name_override)]
    /\ UNCHANGED <<platform, callers, installs, lock, files, clock, ticks, deletes,
                   pc, req, loc, hist, ret, inserted_at>>

NextSelect == SelectReleaseAsset

SpecSelect == InitSelect /\ [][NextSelect]_vars

\* The state in which a function is applied on its own to one of inputs.
InitPure(inputs) ==
    /\ platform \in HostPlatforms
    /\ callers = {}
    /\ installs = EmptyMap
    /\ lock = None
    /\ files = {}
    /\ clock = 0
    /\ ticks = 0
    /\ deletes = 0
    /\ pc = [t \in Threads |-> "idle"]
    /\ req = [t \in Threads |-> NoRequest]
    /\ loc = [t \in Threads |-> NoLocals]
    /\ hist = [t \in Threads |-> NoHistory]
    /\ ret = [t \in Threads |-> None]
    /\ sel \in inputs
    /\ inserted_at = EmptyMap

SetSel(new) ==
    /\ sel' = new
    /\ UNCHANGED <<platform, callers, installs, lock, files, clock, ticks, deletes,
                   pc, req, loc, hist, ret, inserted_at>>

\* retry_with_backoff(f) at its entry: results are the results of the
\* invocations of f so far, trace the invocations and sleeps in order.
RetryStart ==
    [fn |-> "retry_with_backoff", at |-> "call", attempt |-> 0, last_err |-> "",
     results |-> <<>>, trace |-> <<>>, out |-> None]

\* The results an invocation of f can give.
RetryOutcomes ==
    {Ok("first"), Ok("second"), Err("network error"), Err("release not found"),
     Err("timed out")}

\* f() of retry_with_backoff, download.rs 33-36 and 39-42, and the return
\* of line 44.
RetryInvoke(outcomes) ==
    /\ sel.fn = "retry_with_backoff"
    /\ sel.at = "call"
    /\ \E o \in outcomes :
         LET called == [sel EXCEPT !.results = Append(@, o),
                                   !.trace = Append(@, [op |-> "call", ms |-> 0])]
         IN  IF o.ok
             THEN SetSel([called EXCEPT !.at = "returned", !.out = Some(o)])
             ELSE IF RetryAfter(sel.attempt, o.val)
             THEN SetSel([called EXCEPT !.at = "sleep", !.last_err = o.val])
             ELSE SetSel([called EXCEPT !.at = "returned", !.last_err = o.val,
                                        !.out = Some(Err(o.val))])

\* thread::sleep(Duration::from_millis(delay_ms)), download.rs 37-38
RetrySleep ==
    /\ sel.fn = "retry_with_backoff"
    /\ sel.at = "sleep"
    /\ SetSel([sel EXCEPT !.attempt = @ + 1,
                          !.at = "call",
                          !.trace = Append(@, [op |-> "sleep",
                                               ms |-> RETRY_BACKOFF_MS[sel.attempt + 1]])])

InitRetry == InitPure({RetryStart})

NextRetry == RetryInvoke(RetryOutcomes) \/ RetrySleep

SpecRetry == InitRetry /\ [][NextRetry]_vars

\* The download settings two calls of install_key are made with.
KeyTags == {None, Some(""), Some(" "), Some("v1"), Some(" v1 ")}
KeyRepos == {None, Some("o/r"), Some(" o/r ")}
KeyAssets == {None, Some("loom.tgz")}
KeySettings ==
    {[enabled |-> None, repo |-> r, tag |-> t, asset |-> a] :
        r \in KeyRepos, t \in KeyTags, a \in KeyAssets}

\* Two calls of install_key on one platform, before either is made.
KeyInputs ==
    {[fn |-> "install_key", settings |-> <<a, b>>, os |-> p.os, arch |-> p.arch,
      keys |-> <<>>] :
        a \in KeySettings, b \in KeySettings, p \in HostPlatforms}

\* One call of env::install_key, download.rs 52: the next of the two.
ComputeInstallKey ==
    /\ sel.fn = "install_key"
    /\ Len(sel.keys) < Len(sel.settings)
    /\ SetSel([sel EXCEPT !.keys =
                  Append(@, install_key(sel.settings[Len(sel.keys) + 1], sel.os, sel.arch))])

\* The environments with_path_prefix is called with: the entries of a
\* worktree's shell environment or of a settings map, names distinct.
PathValues == {"", " ", "/usr/bin", "/usr/bin:/bin"}
PrefixEnvs ==
    {<<>>, <<<<"HOME", "/home/u">>>>}
        \cup UNION {{<<<<"PATH", v>>>>,
                     <<<<"HOME", "/home/u">>, <<"PATH", v>>>>,
                     <<<<"PATH", v>>, <<"HOME", "/home/u">>>>,
                     <<<<"HOME", "/home/u">>, <<"PATH", v>>, <<"LOOM_HOME", "/l">>>>} :
                        v \in PathValues}

PrefixInputs ==
    {[fn |-> "with_path_prefix", env |-> e, prefix |-> "/i/bin", os |-> os,
      process_path |-> pp, returned |-> FALSE, out |-> <<>>] :
        e \in PrefixEnvs, os \in OsSet, pp \in {None, Some("/bin")}}

\* One call with_path_prefix(env, prefix, current_path_sep()).
ApplyWithPathPrefix ==
    /\ sel.fn = "with_path_prefix"
    /\ ~sel.returned
    /\ SetSel([sel EXCEPT !.returned = TRUE,
                          !.out = with_path_prefix(sel.env, sel.prefix,
                                                   current_path_sep(sel.os),
                                                   sel.process_path)])

\* Names of release assets and of other files.
FileNames ==
    {"loom.tar.gz", "LOOM.TAR.GZ", "loom.tgz", "loom.Tgz", "loom.zip", "loom.ZIP",
     "loom.gz", "loom.GZ", "loom", "loom.exe", "loom.tar", "tar.gz", ".tgz", "",
     "loom.tar.gz.zip", "loom.zip.gz", "loom.tgz.gz", "loomzip", "gz",
     "loom.tar.gz.sha256", "loom.zip.tar.gz"}

FileTypeInputs ==
    {[fn |-> "infer_downloaded_file_type", asset_name |-> n, returned |-> FALSE,
      out |-> ""] : n \in FileNames}

\* One call infer_downloaded_file_type(asset_name).
InferDownloadedFileType ==
    /\ sel.fn = "infer_downloaded_file_type"
    /\ ~sel.returned
    /\ SetSel([sel EXCEPT !.returned = TRUE,
                          !.out = infer_downloaded_file_type(sel.asset_name)])

\* The releases summarize_asset_names is called with, and the limits.
SummaryNames == {"b.zip", "B.zip", "a", "a-1", "a_1"}

MaxSummaryAssets == 3

SummaryInputs ==
    {[fn |-> "summarize_asset_names", assets |-> a, max_items |-> m,
      returned |-> FALSE, out |-> ""] :
        a \in UNION {[1..n -> {Asset(x) : x \in SummaryNames}] : n \in 0..MaxSummaryAssets},
        m \in 0..MaxSummaryAssets}

\* One call summarize_asset_names(assets, max_items).
SummarizeAssetNames ==
    /\ sel.fn = "summarize_asset_names"
    /\ ~sel.returned
    /\ SetSel([sel EXCEPT !.returned = TRUE,
                          !.out = summarize_asset_names(sel.assets, sel.max_items)])

\* The calls of upsert_env, each made twice in a row with the same key and
\* value: outs are the environments after each call.
UpsertInputs ==
    {[fn |-> "upsert_env", env |-> e, key |-> k, value |-> v, outs |-> <<>>] :
        e \in PrefixEnvs, k \in {"PATH", "LOOM_HOME", "TERM"}, v \in {"", "/x"}}

\* One call upsert_env(&mut env, key, value).
ApplyUpsertEnv ==
    /\ sel.fn = "upsert_env"
    /\ Len(sel.outs) < 2
    /\ LET env == IF Len(sel.outs) = 0 THEN sel.env ELSE sel.outs[Len(sel.outs)]
       IN  SetSel([sel EXCEPT !.outs = Append(@, upsert_env(env, sel.key, sel.value))])

InitFunctions ==
    \/ InitPure(UpsertInputs)
    \/ InitPure(KeyInputs)
    \/ InitPure(PrefixInputs)
    \/ InitPure(FileTypeInputs)
    \/ InitPure(SummaryInputs)

NextFunctions ==
    \/ ComputeInstallKey
    \/ ApplyWithPathPrefix
    \/ InferDownloadedFileType
    \/ SummarizeAssetNames
    \/ ApplyUpsertEnv

SpecFunctions == InitFunctions /\ [][NextFunctions]_vars

\* A directory tree for walk: nodes maps each directory to its entries, an
\* entry being a file or a directory (or a link to one, which is_dir
\* follows); read_dir fails on the directories of unreadable.
FileEntry(name) == [name |-> name, dir |-> FALSE, node |-> 0]
DirEntry(name, node) == [name |-> name, dir |-> TRUE, node |-> node]

\* A chain of n nested directories below the root, the innermost holding a
\* file named leaf.
ChainTree(n, leaf) ==
    [nodes |-> [i \in 0..n |->
                   IF i < n
                   THEN {DirEntry("d", i + 1)}
                            \cup (IF i = 0 THEN {FileEntry("README")} ELSE {})
                   ELSE {FileEntry(leaf)}],
     unreadable |-> {}]

\* A directory that holds a link to itself.
LoopTree ==
    [nodes |-> [i \in {0} |-> {DirEntry("self", 0), FileEntry("notes")}],
     unreadable |-> {}]

\* Two directories that each hold a binary, and one that cannot be read.
ForkTree ==
    [nodes |-> [i \in 0..3 |->
                   IF i = 0 THEN {DirEntry("a", 1), DirEntry("b", 2), DirEntry("c", 3)}
                   ELSE IF i = 1 THEN {FileEntry("loom")}
                   ELSE IF i = 2 THEN {FileEntry("loom.exe")}
                   ELSE {FileEntry("loom")}],
     unreadable |-> {3}]

LockedTree ==
    [nodes |-> [i \in 0..1 |->
                   IF i = 0 THEN {DirEntry("a", 1)} ELSE {FileEntry("loom")}],
     unreadable |-> {1}]

MaxNesting == 10

WalkTrees ==
    {ChainTree(n, leaf) : n \in 0..MaxNesting, leaf \in {"loom", "notes"}}
        \cup {LoopTree, ForkTree, LockedTree}

\* A call walk(dir, names, depth) that has not read its directory yet.
WalkFrame(path, node, depth) ==
    [path |-> path, node |-> node, depth |-> depth, read |-> FALSE, todo |-> {}]

\* find_file_named(root, names) at its entry: walk(root, names, 0).
WalkInputs ==
    {[fn |-> "find_file_named", fs |-> fs, names |-> {"loom.exe", "loom"},
      stack |-> <<WalkFrame("root", 0, 0)>>, reads |-> {}, returned |-> FALSE,
      out |-> None] : fs \in WalkTrees}

Walking == sel.fn = "find_file_named" /\ ~sel.returned

\* The innermost call of walk
Top == sel.stack[Len(sel.stack)]

\* The innermost call returns None to its caller; the outermost one to the
\* caller of find_file_named.
WalkReturnNone ==
    IF Len(sel.stack) = 1
    THEN [sel EXCEPT !.stack = <<>>, !.returned = TRUE, !.out = None]
    ELSE [sel EXCEPT !.stack = SubSeq(@, 1, Len(@) - 1)]

\* A variant of WalkEnter without the depth bound.
WalkEnter_Unbounded ==
    /\ Walking
    /\ ~Top.read
    /\ IF Top.node \in sel.fs.unreadable
       THEN SetSel(WalkReturnNone)
       ELSE SetSel([sel EXCEPT
                      !.stack[Len(sel.stack)].read = TRUE,
                      !.stack[Len(sel.stack)].todo = sel.fs.nodes[Top.node],
                      !.reads = @ \cup {[path |-> Top.path, depth |-> Top.depth]}])

\* walk, download.rs 235-238: the depth test and fs::read_dir(dir).ok()?
WalkEnter ==
    /\ Walking
    /\ ~Top.read
    /\ IF Top.depth > MaxWalkDepth \/ Top.node \in sel.fs.unreadable
       THEN SetSel(WalkReturnNone)
       ELSE SetSel([sel EXCEPT
                      !.stack[Len(sel.stack)].read = TRUE,
                      !.stack[Len(sel.stack)].todo = sel.fs.nodes[Top.node],
                      !.reads = @ \cup {[path |-> Top.path, depth |-> Top.depth]}])

\* walk, download.rs 239-254: the next entry of the directory, in the order
\* read_dir yields, which the platform chooses.
WalkEntry ==
    /\ Walking
    /\ Top.read
    /\ \E e \in Top.todo :
         LET rest == [sel EXCEPT !.stack[Len(sel.stack)].todo = @ \ {e}]
             path == Join(Top.path, e.name)
         IN  IF e.dir
             THEN SetSel([rest EXCEPT !.stack =
                            Append(@, WalkFrame(path, e.node, Top.depth + 1))])
             ELSE IF e.name \in sel.names
             THEN SetSel([sel EXCEPT !.stack = <<>>, !.returned = TRUE,
                                     !.out = Some(path)])
             ELSE SetSel(rest)

\* walk, download.rs 255: the entries are used up.
WalkLeave ==
    /\ Walking
    /\ Top.read
    /\ Top.todo = {}
    /\ SetSel(WalkReturnNone)

InitWalk == InitPure(WalkInputs)

NextWalk == WalkEnter \/ WalkEntry \/ WalkLeave

\* The walk is one thread that runs until it returns.
SpecWalk == InitWalk /\ [][NextWalk]_vars /\ WF_vars(NextWalk)

---------------------------------------------------------------------------
(* Properties of the install cache, checked under Spec.                     *)

Range(s) == {s[i] : i \in 1..Len(s)}

Events(t) == hist[t].events

\* The thread is about to look its key up and the map has a record for it.
AtLookup(t) == pc[t] = "cache_lookup" /\ loc[t].key \in DOMAIN installs

Cached(t) == installs[loc[t].key]

\* The step that performs the lookup.
LookupStep(t) == pc[t] = "cache_lookup" /\ pc'[t] # "cache_lookup"

\* The step that hands the result of ensure_loom_install to the caller.
ReturnStep(t) == pc[t] = "ensure_ret" /\ pc'[t] = "done"

\* ensure_loom_install is returning a record it took from the map.
ReturnsCached(t) ==
    /\ pc[t] = "ensure_ret"
    /\ Events(t) = <<"cache_get">>
    /\ Unwrap(loc[t].result).ok

Result(t) == Unwrap(loc[t].result).val

\* The lookup step returns the cached record as it is, and nothing else happens.
HitStep(t) ==
    /\ pc'[t] = "ensure_ret"
    /\ loc'[t].result = Some(Ok(Cached(t)))
    /\ hist'[t].events = <<"cache_get">>
    /\ UNCHANGED <<installs, files>>

\* The return of a cached record: no further operation, and the program is
\* the record's primary binary.
HitReturn(t) ==
    /\ UNCHANGED <<hist, installs, files>>
    /\ Unwrap(ret'[t]).ok
    /\ Unwrap(ret'[t]).val.program = Result(t).loom_path

\* C1: a latest request that finds a record whose path exists but whose
\* resolution time is LATEST_RELEASE_TTL or more in the past is re-resolved:
\* a record of the latest release that ensure_loom_install returns straight
\* from the map was resolved less than LATEST_RELEASE_TTL ago.
C1_StaleLatestIsResolvedAgain ==
    \A t \in Threads :
        (ReturnsCached(t) /\ loc[t].is_latest) =>
            /\ IsSome(Result(t).resolved_at_unix_secs)
            /\ saturating_sub(loc[t].now, Unwrap(Result(t).resolved_at_unix_secs))
                   < LATEST_RELEASE_TTL

FreshLatest(t) ==
    /\ AtLookup(t)
    /\ loc[t].is_latest
    /\ exists(Cached(t).loom_path)
    /\ IsSome(Cached(t).resolved_at_unix_secs)
    /\ saturating_sub(loc[t].now, Unwrap(Cached(t).resolved_at_unix_secs))
           < LATEST_RELEASE_TTL

\* C2: a latest request that finds a record whose path exists and that was
\* resolved less than LATEST_RELEASE_TTL ago gets that record unchanged, and
\* the call performs no release lookup, no download and no sleep.
C2_FreshLatestIsReturnedUnchanged ==
    [][\A t \in Threads :
          /\ (LookupStep(t) /\ FreshLatest(t)) => HitStep(t)
          /\ (ReturnStep(t) /\ ReturnsCached(t) /\ loc[t].is_latest) => HitReturn(t)]_vars

\* A latest record is returned from the map one second before it turns stale.
C2_FreshLatestHit ==
    \E t \in Threads :
        /\ ReturnsCached(t)
        /\ loc[t].is_latest
        /\ IsSome(Result(t).resolved_at_unix_secs)
        /\ loc[t].now - Unwrap(Result(t).resolved_at_unix_secs) = LATEST_RELEASE_TTL - 1

PinnedCached(t) ==
    /\ AtLookup(t)
    /\ ~loc[t].is_latest
    /\ exists(Cached(t).loom_path)

\* C3: a pinned request that finds a record whose path exists gets that
\* record, however long ago it was inserted, without release lookup or
\* download.
C3_PinnedNeverExpires ==
    [][\A t \in Threads :
          /\ (LookupStep(t) /\ PinnedCached(t)) => HitStep(t)
          /\ (ReturnStep(t) /\ ReturnsCached(t) /\ ~loc[t].is_latest) => HitReturn(t)]_vars

\* A pinned record is returned from the map LATEST_RELEASE_TTL or more after
\* its insertion.
C3_OldPinnedHit ==
    \E t \in Threads :
        /\ ReturnsCached(t)
        /\ ~loc[t].is_latest
        /\ loc[t].now - inserted_at[loc[t].key] >= LATEST_RELEASE_TTL

\* The operations of a resolution from the release host onward.
Resolved(events) ==
    {"release_lookup", "select_release_asset", "download_file", "find_file_named",
     "cache_insert"} \subseteq Range(events)

C5_ErrorLeavesCacheUnchanged ==
    /\ [][installs' # installs =>
             \E t \in Threads :
                 /\ pc[t] = "insert"
                 /\ pc'[t] = "ensure_ret"
                 /\ Resolved(hist'[t].events)
                 /\ loc'[t].result = Some(Ok(installs'[loc[t].key]))
                 /\ \A k \in DOMAIN installs \ {loc[t].key} :
                        k \in DOMAIN installs' /\ installs'[k] = installs[k]]_vars
    /\ [](\A t \in Threads :
             (pc[t] = "ensure_ret" /\ ~Unwrap(loc[t].result).ok) =>
                 "cache_insert" \notin Range(Events(t)))

\* A call fails at its last fallible step, after the download.
C5_FailedAfterDownload ==
    \E t \in Threads :
        /\ pc[t] = "ensure_ret"
        /\ ~Unwrap(loc[t].result).ok
        /\ {"download_file", "make_file_executable"} \subseteq Range(Events(t))

---------------------------------------------------------------------------
(* Properties of the resolution of the binary, checked under SpecResolve.   *)

\* The path the caller configured, if any.
ConfiguredPath(r) ==
    CASE r.entry = "context_server_command" ->
            IF r.settings.ok /\ IsSome(r.settings.val.command)
            THEN Unwrap(r.settings.val.command).path ELSE None
      [] r.entry = "resolve_binary" ->
            IF IsSome(r.runtime_settings)
            THEN Unwrap(r.runtime_settings).command_path ELSE None
      [] OTHER -> None

Blank(str) == \A i \in 1..Len(str) : IsWhitespace(CharAt(str, i))

HasExplicitPath(r) == IsSome(ConfiguredPath(r)) /\ ~Blank(Unwrap(ConfiguredPath(r)))

\* The request is one the entry point resolves a binary for.
Resolvable(r) ==
    /\ r.entry # "none"
    /\ r.entry = "context_server_command" => (r.server_id = "loom" /\ r.settings.ok)

\* The binary a lookup on the host of the request finds, if any: by the
\* worktree's which, by `which loom`, or at a well-known location.
FoundOnHost(r) ==
    IF IsSome(WorktreeWhich(r.worktree)) THEN WorktreeWhich(r.worktree)
    ELSE IF resolve_loom_path_from_host(r.host) # "loom"
    THEN Some(resolve_loom_path_from_host(r.host))
    ELSE None

\* The download settings of the request.
DownloadOf(r) ==
    CASE r.entry = "context_server_command" -> r.settings.val.download
      [] r.entry = "resolve_binary" ->
            IF IsSome(r.runtime_settings)
            THEN Unwrap(r.runtime_settings).extension.download
            ELSE DefaultDownloadSettings
      [] OTHER -> DefaultDownloadSettings

\* The base environment of the request: the configured variables sorted by
\* name for context_server_command, the worktree's shell environment (the
\* process's PATH when that is empty) for resolve_binary, with the
\* configured variables set in it.
BaseEnvOf(r) ==
    CASE r.entry = "context_server_command" ->
            IF IsSome(r.settings.val.command) /\ IsSome(Unwrap(r.settings.val.command).env)
            THEN env_map_to_vec(Unwrap(Unwrap(r.settings.val.command).env))
            ELSE <<>>
      [] r.entry = "resolve_binary" /\ IsSome(r.runtime_settings) ->
            UpsertAll(BaseEnv(r.worktree, r.process_path),
                      Unwrap(r.runtime_settings).command_env)
      [] OTHER -> BaseEnv(r.worktree, r.process_path)

\* The call returned at once, having touched neither the release host, the
\* filesystem nor the cache.
ReturnedAtOnce(t) == pc[t] = "done" /\ Events(t) = <<>>

\* C6: on every entry point, a call without an explicit path whose host
\* lookup finds a binary returns the path found with the base environment,
\* and performs no release lookup, download or cache insert, even when
\* downloading is enabled.
C6_HostBinaryIsUsed ==
    \A t \in Threads :
        (Resolvable(req[t]) /\ ~HasExplicitPath(req[t]) /\ IsSome(FoundOnHost(req[t]))) =>
            /\ ReturnedAtOnce(t)
            /\ ret[t] = Some(Ok(Command(Unwrap(FoundOnHost(req[t])), BaseEnvOf(req[t]))))

\* C7, as the code has it: a call with an explicit, non-blank path returns
\* that path without its leading and trailing whitespace, with the base
\* environment, and performs no host lookup, release lookup, download or
\* cache access.
C7_ExplicitPathIsReturnedTrimmed ==
    \A t \in Threads :
        (Resolvable(req[t]) /\ HasExplicitPath(req[t])) =>
            /\ ReturnedAtOnce(t)
            /\ hist[t].lookups = <<>>
            /\ ret[t] = Some(Ok(Command(Trim(Unwrap(ConfiguredPath(req[t]))),
                                        BaseEnvOf(req[t]))))

\* C7, as the claim has it: the explicit path is returned verbatim.
C7_ExplicitPathIsReturnedVerbatim ==
    \A t \in Threads :
        (Resolvable(req[t]) /\ HasExplicitPath(req[t])) =>
            /\ ReturnedAtOnce(t)
            /\ hist[t].lookups = <<>>
            /\ ret[t] = Some(Ok(Command(Unwrap(ConfiguredPath(req[t])),
                                        BaseEnvOf(req[t]))))

\* A call returned an explicit path that was configured with whitespace
\* around it, and the environment it returned has the configured PATH.
C7_PaddedExplicitPath ==
    \E t \in Threads :
        /\ pc[t] = "done"
        /\ HasExplicitPath(req[t])
        /\ Unwrap(ConfiguredPath(req[t])) # Trim(Unwrap(ConfiguredPath(req[t])))
        /\ Unwrap(ret[t]).ok
        /\ <<"PATH", "/usr/bin">> \in Range(Unwrap(ret[t]).val.env)

\* C8: a call without an explicit path, whose host lookup finds nothing and
\* whose settings disable downloading, returns the bare name "loom" with the
\* base environment, without error and without calling ensure_loom_install.
C8_BareNameWhenDownloadDisabled ==
    \A t \in Threads :
        (/\ Resolvable(req[t])
         /\ ~HasExplicitPath(req[t])
         /\ FoundOnHost(req[t]) = None
         /\ DownloadOf(req[t]).enabled = Some(FALSE)) =>
            /\ ReturnedAtOnce(t)
            /\ ret[t] = Some(Ok(Command("loom", BaseEnvOf(req[t]))))

\* A call of resolve_binary returned the bare name after a host lookup that
\* found nothing, with downloading disabled.
C8_DisabledAndNotFound ==
    \E t \in Threads :
        /\ pc[t] = "done"
        /\ req[t].entry = "resolve_binary"
        /\ ~HasExplicitPath(req[t])
        /\ FoundOnHost(req[t]) = None
        /\ DownloadOf(req[t]).enabled = Some(FALSE)
        /\ "resolve_loom_path_from_host" \in Range(hist[t].lookups)
        /\ Unwrap(ret[t]).val.program = "loom"

\* The value of the first variable of env named PATH, if any.
PathOf(env) ==
    IF \E i \in 1..Len(env) : env[i][1] = "PATH"
    THEN Some(env[CHOOSE i \in 1..Len(env) :
                    env[i][1] = "PATH" /\ \A j \in 1..(i - 1) : env[j][1] # "PATH"][2])
    ELSE None

\* The PATH an install is prepended to: that of the base environment, else
\* that of the process, else the empty string.
PreviousPath(t) ==
    IF IsSome(PathOf(loc[t].base_env)) THEN Unwrap(PathOf(loc[t].base_env))
    ELSE UnwrapOr(req[t].process_path, "")

Separator == IF platform.os = "Windows" THEN ";" ELSE ":"

\* env is base with its PATH set to path, every other variable as it was.
SamePathApart(env, base, path) ==
    IF IsSome(PathOf(base))
    THEN /\ Len(env) = Len(base)
         /\ \A i \in 1..Len(base) :
                env[i] = IF base[i][1] = "PATH" /\ \A j \in 1..(i - 1) : base[j][1] # "PATH"
                         THEN <<"PATH", path>> ELSE base[i]
    ELSE env = Append(base, <<"PATH", path>>)

\* ensure_loom_install hands a record to the entry point that called it.
InstallReturns(t) == ReturnStep(t) /\ Unwrap(loc[t].result).ok

\* C9, as the code has it: when ensure_loom_install succeeds the entry
\* point returns the record's primary binary path and the base environment
\* with PATH set to bin_dir, the separator of the platform and the previous
\* PATH, or to bin_dir alone when the previous PATH is empty or whitespace;
\* the previous PATH is that of the base environment, else that of the
\* process; every other variable is unchanged.
C9_InstallPrependsBinDir ==
    [][\A t \in Threads :
          InstallReturns(t) =>
              /\ Unwrap(ret'[t]).ok
              /\ Unwrap(ret'[t]).val.program = Result(t).loom_path
              /\ SamePathApart(Unwrap(ret'[t]).val.env, loc[t].base_env,
                               IF Blank(PreviousPath(t)) THEN Result(t).bin_dir
                               ELSE Result(t).bin_dir \o Separator \o PreviousPath(t))]_vars

\* C9, as the claim has it: whatever the PATH of the base environment, the
\* PATH returned is bin_dir, the separator and that previous PATH.
C9_InstallAlwaysJoinsPath ==
    [][\A t \in Threads :
          (InstallReturns(t) /\ IsSome(PathOf(loc[t].base_env))) =>
              /\ Unwrap(ret'[t]).ok
              /\ Unwrap(ret'[t]).val.program = Result(t).loom_path
              /\ SamePathApart(Unwrap(ret'[t]).val.env, loc[t].base_env,
                               Result(t).bin_dir \o Separator \o PreviousPath(t))]_vars

\* An install returned to resolve_binary, whose worktree has a blank PATH:
\* the PATH returned is the directory of the binary alone.
C9_InstallOverBlankPath ==
    \E t \in Threads :
        /\ pc[t] = "done"
        /\ "cache_insert" \in Range(Events(t))
        /\ PathOf(BaseEnvOf(req[t])) = Some(" ")
        /\ Unwrap(ret[t]).ok
        /\ PathOf(Unwrap(ret[t]).val.env) = Some(ParentOrDot(Unwrap(ret[t]).val.program))

---------------------------------------------------------------------------
(* Properties of the asset selection, checked under SpecSelect.             *)

\* C10: without an override, select_release_asset returns no asset that was
\* built for another operating system or architecture than the one asked
\* for, and so none at all when the list has only assets of other platforms.
C10_NoAssetOfAnotherPlatform ==
    (/\ sel.fn = "select_release_asset"
     /\ sel.returned
     /\ sel.exact_name_override = None
     /\ IsSome(sel.out)) =>
        PublishedFor(Unwrap(sel.out).name) = [os |-> sel.os, arch |-> sel.arch]

\* A call of select_release_asset has returned.
Selected == sel.fn = "select_release_asset" /\ sel.returned

\* The call was given no override: none at all, or a blank one.
NoOverride ==
    sel.exact_name_override = None \/ Blank(Unwrap(sel.exact_name_override))

AssetNames(assets) == {assets[i].name : i \in 1..Len(assets)}

\* loom-core_<version>_<os-token>_<arch-token>.<ext>
CanonicalName(version, os, arch) ==
    "loom-core_" \o version \o "_"
        \o (CASE os = "Mac" -> "darwin" [] os = "Linux" -> "linux"
               [] os = "Windows" -> "windows")
        \o "_"
        \o (CASE arch = "Aarch64" -> "arm64" [] arch = "X8664" -> "amd64"
               [] arch = "X86" -> "x86")
        \o (IF os = "Windows" THEN ".zip" ELSE ".tar.gz")

\* C11: with no override, when the list has an asset with the canonical name
\* of the version and platform asked for, select_release_asset returns that
\* asset, wherever it stands in the list and whatever else the list holds.
C11_CanonicalNameWins ==
    (/\ Selected
     /\ NoOverride
     /\ CanonicalName(sel.version, sel.os, sel.arch) \in AssetNames(sel.assets)) =>
        /\ IsSome(sel.out)
        /\ Unwrap(sel.out).name = CanonicalName(sel.version, sel.os, sel.arch)
        /\ \E i \in 1..Len(sel.assets) : sel.assets[i] = Unwrap(sel.out)

\* The canonical asset is returned although it stands last, behind an asset
\* of the same platform with a shorter name.
C11_CanonicalBehindShorter ==
    /\ Selected
    /\ NoOverride
    /\ Len(sel.assets) = 2
    /\ sel.assets[2].name = CanonicalName(sel.version, sel.os, sel.arch)
    /\ Len(sel.assets[1].name) < Len(sel.assets[2].name)
    /\ PublishedFor(sel.assets[1].name) = [os |-> sel.os, arch |-> sel.arch]
    /\ sel.out = Some(sel.assets[2])

\* The name the override asks for.
OverrideName == Trim(Unwrap(sel.exact_name_override))

\* C12: given an override that is not blank, select_release_asset returns
\* the asset whose name is the trimmed override, whatever the platform and
\* version, and none when no asset has that name: it does not go on to the
\* canonical name or the heuristic.
C12_OverrideIsExact ==
    (Selected /\ ~NoOverride) =>
        IF OverrideName \in AssetNames(sel.assets)
        THEN /\ IsSome(sel.out)
             /\ Unwrap(sel.out).name = OverrideName
             /\ \E i \in 1..Len(sel.assets) : sel.assets[i] = Unwrap(sel.out)
        ELSE sel.out = None

\* The override names no asset of the list, and none is returned although
\* the list holds the canonical asset of the platform.
C12_OverrideAbsentCanonicalPresent ==
    /\ Selected
    /\ ~NoOverride
    /\ OverrideName \notin AssetNames(sel.assets)
    /\ CanonicalName(sel.version, sel.os, sel.arch) \in AssetNames(sel.assets)
    /\ sel.out = None

\* The name has, in lower case, one of the operating system names and one
\* of the architecture names of the platform somewhere in it.
CarriesPlatform(name, os, arch) ==
    /\ \E token \in OsTokens(os) : Contains(to_ascii_lowercase(name), token)
    /\ \E token \in ArchTokens(arch) : Contains(to_ascii_lowercase(name), token)

\* C13: select_release_asset returns none for the empty list, whatever the
\* platform, version and override; and with no override it returns none when
\* no asset name carries both an operating system token and an architecture
\* token of the platform asked for.
C13_NoneRatherThanArbitrary ==
    Selected =>
        /\ Len(sel.assets) = 0 => sel.out = None
        /\ (/\ NoOverride
            /\ \A i \in 1..Len(sel.assets) :
                  ~CarriesPlatform(sel.assets[i].name, sel.os, sel.arch)) =>
                sel.out = None

\* None is returned from a list of two assets, neither of which names the
\* platform asked for.
C13_NoneFromForeignAssets ==
    /\ Selected
    /\ sel.exact_name_override = None
    /\ Len(sel.assets) = 2
    /\ sel.assets[1] # sel.assets[2]
    /\ \A i \in 1..2 : PublishedFor(sel.assets[i].name).os \notin {"none", sel.os}
    /\ sel.out = None

---------------------------------------------------------------------------
(* Properties of retry_with_backoff, checked under SpecRetry.               *)

Retrying == sel.fn = "retry_with_backoff"

RetryReturned == Retrying /\ sel.at = "returned"

Invocations == Len(sel.results)

\* C14: retry_with_backoff invokes the operation at most four times; it
\* invokes it no more after a success and returns that success; when four
\* invocations have failed it returns the error of the fourth.
C14_AtMostFourAttempts ==
    Retrying =>
        /\ Invocations <= 4
        /\ sel.at = "sleep" => Invocations <= 3
        /\ \A i \in 1..(Invocations - 1) : ~sel.results[i].ok
        /\ (Invocations > 0 /\ sel.results[Invocations].ok) =>
               (sel.at = "returned" /\ sel.out = Some(sel.results[Invocations]))
        /\ RetryReturned =>
               \/ sel.results[Invocations].ok
               \/ /\ Invocations = 4
                  /\ sel.out = Some(Err(sel.results[4].val))

\* Four invocations failed, the last one with another error than the first
\* three, and that last error is returned.
C14_FourthErrorReturned ==
    /\ RetryReturned
    /\ Invocations = 4
    /\ \A i \in 1..3 : sel.results[i] = Err("network error")
    /\ sel.results[4] = Err("release not found")
    /\ sel.out = Some(Err("release not found"))

\* The delays of the sleeps so far, in order.
SleepsOf(trace) ==
    [i \in 1..(Len(trace) \div 2) |-> trace[2 * i].ms]

\* C15: no sleep precedes the first invocation, every sleep lies between
\* two invocations, the delays are 500, 1000 and 2000 ms in that order, and
\* a call returns after exactly as many sleeps as invocations failed before
\* the last one: k for a success after k failures, three when all four fail.
C15_SleepsBetweenAttempts ==
    Retrying =>
        /\ \A i \in 1..Len(sel.trace) :
               sel.trace[i].op = IF i % 2 = 1 THEN "call" ELSE "sleep"
        /\ Len(SleepsOf(sel.trace)) <= 3
        /\ SleepsOf(sel.trace) = SubSeq(<<500, 1000, 2000>>, 1, Len(SleepsOf(sel.trace)))
        /\ RetryReturned =>
               /\ Len(sel.trace) % 2 = 1
               /\ Len(SleepsOf(sel.trace)) = Invocations - 1

\* The operation failed twice and then succeeded: two sleeps, of 500 and
\* 1000 ms.
C15_TwoFailuresTwoSleeps ==
    /\ RetryReturned
    /\ Invocations = 3
    /\ sel.results[3].ok
    /\ SleepsOf(sel.trace) = <<500, 1000>>

---------------------------------------------------------------------------
(* Properties of the release lookup of ensure_loom_install, checked under   *)
(* Spec.                                                                    *)

\* The failures of the release host that a later attempt can repair.
TransientErrors == {"network error"}

\* C16: a release lookup that fails because the tag or a qualifying release
\* does not exist is not retried: no call sleeps towards another attempt
\* after such a failure, only after a transient network failure.
C16_AbsentReleaseIsNotRetried ==
    \A t \in Threads :
        pc[t] = "sleep" => loc[t].last_err \in TransientErrors

---------------------------------------------------------------------------
(* Properties of install_key, with_path_prefix and                           *)
(* infer_downloaded_file_type, checked under SpecFunctions.                 *)

\* The release a tag setting asks for: "" for the latest.
RequestedTag(tag) ==
    IF tag = None \/ Blank(Unwrap(tag)) THEN "" ELSE Trim(Unwrap(tag))

\* Two download settings that resolve the same release of the same
\* repository with the same asset override.
EquivalentSettings(a, b) ==
    /\ repo(a) = repo(b)
    /\ a.asset = b.asset
    /\ RequestedTag(a.tag) = RequestedTag(b.tag)

BothKeys == sel.fn = "install_key" /\ Len(sel.keys) = 2

\* C17: two resolutions with equivalent inputs (tag absent, empty or blank
\* alike; a pinned tag with or without surrounding whitespace alike; same
\* repository, asset override and platform) have the same cache key.
C17_EquivalentInputsShareKey ==
    (BothKeys /\ EquivalentSettings(sel.settings[1], sel.settings[2]))
        => sel.keys[1] = sel.keys[2]

Prefixed == sel.fn = "with_path_prefix" /\ sel.returned

\* Positions of the entries of env named name.
EntriesNamed(env, name) == {i \in 1..Len(env) : env[i][1] = name}

\* The returned environment has one PATH entry, at the place of the given
\* one, with value D + separator + P, and leaves every other entry alone.
PrefixedInPlace ==
    LET i == CHOOSE k \in EntriesNamed(sel.env, "PATH") : TRUE
        P == sel.env[i][2]
        separator == IF sel.os = "Windows" THEN ";" ELSE ":"
    IN  /\ Len(sel.out) = Len(sel.env)
        /\ EntriesNamed(sel.out, "PATH") = {i}
        /\ sel.out[i][2] = sel.prefix \o separator \o P
        /\ \A j \in 1..Len(sel.env) : j # i => sel.out[j] = sel.env[j]
        /\ \A j, k \in 1..Len(sel.out) : sel.out[j][1] = sel.out[k][1] => j = k

GivenPath == sel.env[CHOOSE k \in EntriesNamed(sel.env, "PATH") : TRUE][2]

\* C19 (as amended): given an environment with a PATH entry whose value P is
\* not blank, with_path_prefix returns the environment with exactly one
\* PATH entry, of value D + separator + P, no name twice, and every other
\* entry at its place with its value.  When P is empty or blank the one
\* PATH entry holds D alone.
C19_PrefixBeforeGivenPath ==
    (Prefixed /\ EntriesNamed(sel.env, "PATH") # {}) =>
        IF Blank(GivenPath)
        THEN /\ Len(sel.out) = Len(sel.env)
             /\ \A j \in 1..Len(sel.env) :
                    sel.out[j] = IF sel.env[j][1] = "PATH"
                                 THEN <<"PATH", sel.prefix>> ELSE sel.env[j]
        ELSE PrefixedInPlace

\* C19 (as stated): the same for every non-empty P.
C19_PrefixBeforeNonEmptyPath ==
    (Prefixed /\ EntriesNamed(sel.env, "PATH") # {} /\ Len(GivenPath) > 0)
        => PrefixedInPlace

\* A PATH entry of one space between two others was replaced by D alone.
C19_BlankPathBetweenOthers ==
    /\ Prefixed
    /\ sel.env = <<<<"HOME", "/home/u">>, <<"PATH", " ">>, <<"LOOM_HOME", "/l">>>>
    /\ sel.out = <<<<"HOME", "/home/u">>, <<"PATH", "/i/bin">>, <<"LOOM_HOME", "/l">>>>

Inferred == sel.fn = "infer_downloaded_file_type" /\ sel.returned

\* name ends with suffix when ASCII letters are compared without case.
EndsWithIgnoringCase(name, suffix) ==
    /\ Len(name) >= Len(suffix)
    /\ \A i \in 1..Len(suffix) :
          LowerChar(CharAt(name, Len(name) - Len(suffix) + i)) = CharAt(suffix, i)

\* C20: infer_downloaded_file_type gives GzipTar for a name ending in
\* .tar.gz or .tgz, else Zip for one ending in .zip, else Gzip for one
\* ending in .gz, else Uncompressed, letter case ignored.
C20_FileTypeBySuffix ==
    Inferred =>
        sel.out =
            IF EndsWithIgnoringCase(sel.asset_name, ".tar.gz")
                \/ EndsWithIgnoringCase(sel.asset_name, ".tgz") THEN "GzipTar"
            ELSE IF EndsWithIgnoringCase(sel.asset_name, ".zip") THEN "Zip"
            ELSE IF EndsWithIgnoringCase(sel.asset_name, ".gz") THEN "Gzip"
            ELSE "Uncompressed"

\* An upper-case .TAR.GZ name, which also ends in .GZ, was inferred GzipTar.
C20_UpperCaseTarGz ==
    /\ Inferred
    /\ sel.asset_name = "LOOM.TAR.GZ"
    /\ sel.out = "GzipTar"

---------------------------------------------------------------------------
(* Properties of two concurrent calls of ensure_loom_install, checked       *)
(* under SpecConcurrent.                                                    *)

\* The steps that read or write the cache.
UnderMutex == {"cache_lookup", "insert"}

\* A thread reads or writes the cache only while it holds the mutex, and
\* holds it only then: no two threads are at such a step together.
MutualExclusion ==
    \A t \in Threads : (pc[t] \in UnderMutex) <=> (lock = Some(t))

\* Every field of the record is set and its binaries are on disk.
CompleteRecord(install) ==
    /\ install.release_version \in LatestVersions
    /\ install.loom_path \in files
    /\ install.bin_dir = ParentOrDot(install.loom_path)
    /\ IsSome(install.loomd_path) => Unwrap(install.loomd_path) \in files
    /\ IsSome(install.resolved_at_unix_secs)

\* t missed the cache, looked the release up, downloaded and inserted.
MissedAndInstalled(t) ==
    /\ "release_lookup" \in Range(Events(t))
    /\ "download_file" \in Range(Events(t))
    /\ "cache_insert" \in Range(Events(t))

\* ensure_loom_install has returned to t's caller or is about to.
Completed(t) == pc[t] \in {"ensure_ret", "done"}

\* A step that changes the cache is the insert of one thread, and leaves
\* under that thread's key the record that thread built.
InsertOverwrites ==
    installs' # installs =>
        \E t \in Threads :
            /\ pc[t] = "insert"
            /\ pc'[t] = "ensure_ret"
            /\ installs' = MapInsert(installs, loc[t].key, Unwrap(loc[t].install))
            /\ loc'[t].result = Some(Ok(installs'[loc[t].key]))

\* C18: of two concurrent calls with one key, each reads and inserts under
\* the mutex; the cache holds at most one record, after both have inserted
\* exactly one, which is the record of the insert made last; a call that
\* returns Ok returns a complete record.
C18_LastInsertWins ==
    /\ [](/\ MutualExclusion
          /\ Cardinality(DOMAIN installs) <= 1
          /\ (\A t \in Threads : Completed(t) /\ MissedAndInstalled(t))
                => Cardinality(DOMAIN installs) = 1
          /\ \A t \in Threads :
                (pc[t] = "ensure_ret" /\ Unwrap(loc[t].result).ok)
                    => CompleteRecord(Unwrap(loc[t].result).val))
    /\ [][InsertOverwrites]_vars

\* Both calls missed, both looked up and downloaded, both inserted; their
\* records differ and the cache holds one record, that of thread t2.
C18_BothMissedBothInstalled ==
    /\ \A t \in Threads : pc[t] = "ensure_ret" /\ MissedAndInstalled(t)
    /\ loc["t1"].key = loc["t2"].key
    /\ loc["t1"].result # loc["t2"].result
    /\ DOMAIN installs = {loc["t2"].key}
    /\ loc["t2"].result = Some(Ok(installs[loc["t2"].key]))

---------------------------------------------------------------------------
(* Properties of the records of the install cache, checked under Spec.      *)

\* The download settings of the calls made, and the key of each.
RequestedSettings == {r.settings.val.download : r \in CacheRequests}

KeyOf(settings) == install_key(settings, platform.os, platform.arch)

AsksLatest(settings) == settings.tag = None \/ Blank(Unwrap(settings.tag))

\* C21: every record of the cache carries a resolution time if and only if
\* the request that produced it asked for the latest release (tag absent or
\* blank); the record of a pinned request carries none.
C21_ResolvedAtOnlyForLatest ==
    /\ DOMAIN installs \subseteq {KeyOf(s) : s \in RequestedSettings}
    /\ \A s \in RequestedSettings :
          KeyOf(s) \in DOMAIN installs =>
              (IsSome(installs[KeyOf(s)].resolved_at_unix_secs) <=> AsksLatest(s))

\* The cache holds a record of a latest request, with its resolution time,
\* and a record of a pinned request, without one.
C21_LatestAndPinnedCached ==
    \E a, b \in RequestedSettings :
        /\ AsksLatest(a) /\ ~AsksLatest(b)
        /\ {KeyOf(a), KeyOf(b)} \subseteq DOMAIN installs
        /\ IsSome(installs[KeyOf(a)].resolved_at_unix_secs)
        /\ installs[KeyOf(b)].resolved_at_unix_secs = None

\* The step of thread t that inserts its record.
InsertStep(t) == pc[t] = "insert" /\ pc'[t] = "ensure_ret"

\* C22: at the moment a record is inserted into the cache the file at its
\* primary binary path exists, whatever happened to the filesystem after
\* the binary was located.
C22_InsertedPathExists ==
    [][\A t \in Threads :
          InsertStep(t) => installs'[loc[t].key].loom_path \in files']_vars

---------------------------------------------------------------------------
(* Properties of the search for the binaries, checked under SpecLocate.     *)

\* A file of one of the given names lies below dir.
FileBelow(dir, names) ==
    \E p \in files : StartsWith(p, dir \o "/") /\ FileName(p) \in names

PrimaryNames == IF platform.os = "Windows" THEN {"loom.exe", "loom"} ELSE {"loom"}

SecondaryNames == IF platform.os = "Windows" THEN {"loomd.exe", "loomd"} ELSE {"loomd"}

\* The call of t has searched its install directory and is returning.
Searched(t) == pc[t] = "ensure_ret" /\ "find_file_named" \in Range(Events(t))

SearchedDir(t) == "loom-core/" \o Unwrap(loc[t].release).version

\* C23: when the primary binary is found after extraction the call succeeds
\* and caches its record, with no secondary path when loomd is not found;
\* when the primary binary is not found the call fails with a "could not
\* find" error and inserts nothing, loomd present or not.
C23_SecondaryIsOptional ==
    \A t \in Threads :
        Searched(t) =>
            IF FileBelow(SearchedDir(t), PrimaryNames)
            THEN /\ Unwrap(loc[t].result).ok
                 /\ FileName(Result(t).loom_path) \in PrimaryNames
                 /\ IsSome(Result(t).loomd_path) <=> FileBelow(SearchedDir(t), SecondaryNames)
                 /\ "cache_insert" \in Range(Events(t))
                 /\ MapGet(installs, loc[t].key) = Some(Result(t))
            ELSE /\ ~Unwrap(loc[t].result).ok
                 /\ Contains(Unwrap(loc[t].result).val, "could not find")
                 /\ "cache_insert" \notin Range(Events(t))

\* A call found loom but no loomd, succeeded and cached the record.
C23_InstalledWithoutSecondary ==
    \E t \in Threads :
        /\ Searched(t)
        /\ ~FileBelow(SearchedDir(t), SecondaryNames)
        /\ Unwrap(loc[t].result).ok
        /\ Result(t).loomd_path = None
        /\ installs[loc[t].key] = Result(t)

---------------------------------------------------------------------------
(* Properties of find_file_named, checked under SpecWalk.                   *)

\* The paths of the files named in names that lie in a directory nested at
\* most limit levels below the directory node at path, and whose
\* directories can all be read.
RECURSIVE MatchesWithin(_, _, _, _, _)
MatchesWithin(fs, names, node, path, limit) ==
    IF limit < 0 \/ node \in fs.unreadable THEN {}
    ELSE {path \o "/" \o e.name : e \in {x \in fs.nodes[node] : ~x.dir /\ x.name \in names}}
            \cup UNION {MatchesWithin(fs, names, e.node, path \o "/" \o e.name, limit - 1) :
                            e \in {x \in fs.nodes[node] : x.dir}}

WalkReturned == sel.fn = "find_file_named" /\ sel.returned

\* C24: find_file_named returns on every tree; it reads no directory nested
\* more than 8 levels below the root; it returns a file only if that file
\* has one of the names and lies within the bound, and returns none when no
\* such file lies within the bound, also when one lies deeper.
C24_WalkIsDepthBounded ==
    /\ [](sel.fn = "find_file_named" =>
            /\ \A r \in sel.reads : r.depth <= 8
            /\ WalkReturned =>
                  LET within == MatchesWithin(sel.fs, sel.names, 0, "root", 8)
                  IN  IF within = {} THEN sel.out = None
                      ELSE sel.out \in {Some(p) : p \in within})
    /\ <>WalkReturned

\* The only file named loom lies in a directory nested 9 levels below the
\* root: the walk read the directory at level 8 and returned none.
C24_DeeperFileNotFound ==
    /\ WalkReturned
    /\ sel.fs = ChainTree(9, "loom")
    /\ \E r \in sel.reads : r.depth = 8
    /\ sel.out = None

---------------------------------------------------------------------------
(* Frame of the install cache, checked under Spec.                          *)

\* The step changes the cache by putting install under key and nothing else.
PutsOnly(key, install) ==
    /\ DOMAIN installs' = DOMAIN installs \cup {key}
    /\ installs'[key] = install
    /\ \A k \in DOMAIN installs : k # key => installs'[k] = installs[k]

\* C25: the cache changes only by the insert of a successful fresh install,
\* which puts the new record under the call's key, over the record that key
\* had, and touches no other key; every other step, a hit included, leaves
\* the map as it is, and no entry is ever removed.
C25_OnlyInsertChangesCache ==
    [][/\ (installs' # installs) => \E t \in Threads : InsertStep(t)
       /\ \A t \in Threads :
             InsertStep(t) =>
                 /\ PutsOnly(loc[t].key, Unwrap(loc[t].install))
                 /\ loc'[t].result = Some(Ok(Unwrap(loc[t].install)))
                 /\ {"release_lookup", "download_file"} \subseteq Range(Events(t))
       /\ DOMAIN installs \subseteq DOMAIN installs']_vars

\* A latest request hit a record resolved earlier than the call began while
\* the cache also held a pinned record: the record's time was not refreshed.
C25_HitLeftRecordUnrefreshed ==
    \E t \in Threads :
        /\ ReturnsCached(t)
        /\ loc[t].is_latest
        /\ Cardinality(DOMAIN installs) = 2
        /\ installs[loc[t].key] = Result(t)
        /\ Unwrap(Result(t).resolved_at_unix_secs) < loc[t].now

---------------------------------------------------------------------------
(* The heuristic choice of select_release_asset, checked under SpecSelect.  *)

\* The name has an archive suffix, an operating system token and an
\* architecture token of the platform, and the tool name, case ignored.
PassesFilter(name, os, arch) ==
    /\ \/ EndsWithIgnoringCase(name, ".tar.gz")
       \/ EndsWithIgnoringCase(name, ".tgz")
       \/ EndsWithIgnoringCase(name, ".zip")
    /\ CarriesPlatform(name, os, arch)
    /\ Contains(to_ascii_lowercase(name), "loom")

\* Positions of the assets of the call that pass the filter.
Candidates ==
    {i \in 1..Len(sel.assets) : PassesFilter(sel.assets[i].name, sel.os, sel.arch)}

HeuristicCase ==
    /\ Selected
    /\ NoOverride
    /\ CanonicalName(sel.version, sel.os, sel.arch) \notin AssetNames(sel.assets)

\* C26: with no override and no asset of the canonical name,
\* select_release_asset returns none when no asset passes the filter, and
\* otherwise the asset that passes it with the shortest name, the earliest
\* in the list among those of that length.
C26_ShortestCandidateEarliestFirst ==
    HeuristicCase =>
        IF Candidates = {} THEN sel.out = None
        ELSE \E i \in Candidates :
                /\ sel.out = Some(sel.assets[i])
                /\ \A j \in Candidates :
                      \/ Len(sel.assets[i].name) < Len(sel.assets[j].name)
                      \/ Len(sel.assets[i].name) = Len(sel.assets[j].name) /\ i <= j

\* Two candidates of twenty characters: the first of the list was returned.
C26_TieGoesToEarlier ==
    /\ HeuristicCase
    /\ sel.os = "Linux" /\ sel.arch = "X8664"
    /\ sel.assets = <<Asset("loom_linux_amd64.tgz"), Asset("loom-linux-amd64.tgz")>>
    /\ sel.out = Some(Asset("loom_linux_amd64.tgz"))

---------------------------------------------------------------------------
(* Properties of summarize_asset_names and upsert_env, checked under        *)
(* SpecFunctions.                                                           *)

Summarized == sel.fn = "summarize_asset_names" /\ sel.returned

\* The names of s separated by commas.
RECURSIVE CommaList(_)
CommaList(s) ==
    IF Len(s) = 0 THEN ""
    ELSE CommaList(SubSeq(s, 1, Len(s) - 1))
             \o (IF Len(s) > 1 THEN "," ELSE "") \o s[Len(s)]

\* pick chooses Len(pick) different assets, in ascending order of their
\* names, and no asset left out has a smaller name than one chosen.
SmallestInOrder(assets, pick) ==
    /\ \A i, j \in DOMAIN pick : i < j =>
           /\ pick[i] # pick[j]
           /\ StrLessEq(assets[pick[i]].name, assets[pick[j]].name)
    /\ \A k \in DOMAIN assets : \A i \in DOMAIN pick :
           (\A j \in DOMAIN pick : pick[j] # k) =>
               StrLessEq(assets[pick[i]].name, assets[k].name)

\* C27: summarize_asset_names lists the max smallest names of the release
\* (all of them when there are no more than max) in ascending order,
\* separated by commas, followed by ",..." exactly when the release has
\* more than max assets.
C27_SummaryIsSortedAndBounded ==
    Summarized =>
        LET n == Len(sel.assets)
            k == IF sel.max_items < n THEN sel.max_items ELSE n
        IN  \E pick \in [1..k -> 1..n] :
                /\ SmallestInOrder(sel.assets, pick)
                /\ sel.out = CommaList([i \in 1..k |-> sel.assets[pick[i]].name])
                                  \o (IF n > sel.max_items THEN ",..." ELSE "")

\* Three assets listed out of order and a limit of two.
C27_TwoOfThreeListed ==
    /\ Summarized
    /\ sel.assets = <<Asset("b.zip"), Asset("a_1"), Asset("B.zip")>>
    /\ sel.max_items = 2
    /\ sel.out = "B.zip,a_1,..."

Upserted == sel.fn = "upsert_env" /\ Len(sel.outs) > 0

\* C28: upsert_env replaces the value of the entry of key in place, leaving
\* length and order as they are, or appends one entry <<key, value>> when
\* there is none; entries of other keys are unchanged, and a second
\* application changes nothing.
C28_UpsertReplacesOrAppends ==
    Upserted =>
        LET env == sel.env
            out == sel.outs[1]
            held == EntriesNamed(env, sel.key)
        IN  /\ IF held # {}
               THEN /\ Len(out) = Len(env)
                    /\ \A j \in 1..Len(env) :
                          /\ out[j][1] = env[j][1]
                          /\ out[j][2] = IF j \in held THEN sel.value ELSE env[j][2]
               ELSE /\ Len(out) = Len(env) + 1
                    /\ out[Len(out)] = <<sel.key, sel.value>>
                    /\ \A j \in 1..Len(env) : out[j] = env[j]
            /\ Len(sel.outs) = 2 => sel.outs[2] = sel.outs[1]

\* PATH, the second of three entries, was replaced in place twice over.
C28_ReplacedInPlaceTwice ==
    /\ sel.fn = "upsert_env"
    /\ sel.env = <<<<"HOME", "/home/u">>, <<"PATH", "/usr/bin">>, <<"LOOM_HOME", "/l">>>>
    /\ sel.key = "PATH"
    /\ sel.outs = <<<<<<"HOME", "/home/u">>, <<"PATH", "/x">>, <<"LOOM_HOME", "/l">>>>,
                    <<<<"HOME", "/home/u">>, <<"PATH", "/x">>, <<"LOOM_HOME", "/l">>>>>>

---------------------------------------------------------------------------
(* The mutex of the install cache, checked under SpecContend.               *)

\* The steps of the release lookup, the retry sleep, the asset selection,
\* the download and extraction, the search and chmod.
OutsideMutex == {"fetch", "sleep", "select", "mkdir", "download", "locate", "chmod"}

InCall(t) == pc[t] \notin {"idle", "done"}

\* The mutex is held only by a thread at a step that releases it.
HolderReleases == \A t \in Threads : lock = Some(t) => pc[t] \in UnderMutex

\* The thread waits for the mutex.
Waits(t) == pc[t] \in {"lock_lookup", "lock_insert"}

\* The scheduling of the host's threads: no thread stops for good at a step
\* that does not wait, and a thread does not wait for good unless the mutex
\* is held for good.
FairThreads ==
    \A t \in Threads :
        /\ []<>(~InCall(t) \/ Waits(t))
        /\ <>[]Waits(t) => <>[](lock # None)

\* C29: a thread holds the mutex at none of the steps from the release
\* lookup to chmod, so a thread waiting for the mutex while the other is at
\* such a step finds it free; the holder of the mutex is always at a step
\* that releases it, and every call that is under way returns: no
\* interleaving deadlocks.
C29_LockOnlyAroundCache ==
    /\ [](/\ \A t \in Threads : pc[t] \in OutsideMutex => lock # Some(t)
          /\ \A t, u \in Threads :
                (/\ t # u
                 /\ pc[t] \in {"lock_lookup", "lock_insert"}
                 /\ pc[u] \in OutsideMutex) => lock = None
          /\ HolderReleases)
    /\ FairThreads => \A t \in Threads : InCall(t) ~> (pc[t] = "done")

\* One thread looks its key up under the mutex while the other one sleeps
\* between two attempts of the release lookup.
C29_LookupDuringSleep ==
    /\ pc["t1"] = "sleep"
    /\ pc["t2"] = "cache_lookup"
    /\ lock = Some("t2")

---------------------------------------------------------------------------
(* The order of the operations of one call, checked under Spec.             *)

\* The place of an operation in ensure_loom_install.
StepRank(e) ==
    CASE e = "cache_get" -> 1
      [] e \in {"release_lookup", "sleep"} -> 2
      [] e = "select_release_asset" -> 3
      [] e = "create_dir_all" -> 4
      [] e = "download_file" -> 5
      [] e = "find_file_named" -> 6
      [] e = "make_file_executable" -> 7
      [] e = "cache_insert" -> 8

\* e follows an operation of rank r directly.
FollowsRank(events, i, r) == i > 1 /\ StepRank(events[i - 1]) = r

\* The operations are in the order of the code: the lookup first, then
\* release lookups with sleeps between them, then once each the selection
\* after a release lookup, create_dir_all, the download, the search, chmod
\* (left out on Windows) and the insert.
InOrder(events) ==
    \A i \in 1..Len(events) :
        LET e == events[i]
        IN  /\ \A j \in 1..(i - 1) :
                  /\ StepRank(events[j]) <= StepRank(e)
                  /\ StepRank(e) # 2 => events[j] # e
            /\ e = "cache_get" <=> i = 1
            /\ e = "release_lookup" => events[i - 1] \in {"cache_get", "sleep"}
            /\ e = "sleep" => events[i - 1] = "release_lookup"
            /\ e = "select_release_asset" => events[i - 1] = "release_lookup"
            /\ e \in {"create_dir_all", "download_file", "find_file_named",
                       "make_file_executable"} => FollowsRank(events, i, StepRank(e) - 1)
            /\ e = "cache_insert" =>
                  IF platform.os = "Windows"
                  THEN events[i - 1] = "find_file_named"
                  ELSE events[i - 1] = "make_file_executable"

\* C30: within one call the operations happen in a fixed order; the download
\* is attempted at most once, after a successful release lookup and the
\* selection of an asset, and its failure fails the call at once; the
\* insert comes only after the download, the search and chmod.
C30_StepsInFixedOrder ==
    \A t \in Threads :
        /\ InOrder(Events(t))
        /\ (pc[t] = "ensure_ret" /\ Events(t)[Len(Events(t))] = "download_file") =>
               ~Unwrap(loc[t].result).ok

\* A call whose release lookup succeeded at the second attempt failed at its
\* one attempt to download.
C30_DownloadFailedOnce ==
    \E t \in Threads :
        /\ pc[t] = "ensure_ret"
        /\ ~Unwrap(loc[t].result).ok
        /\ Events(t) = <<"cache_get", "release_lookup", "sleep", "release_lookup",
                         "select_release_asset", "create_dir_all", "download_file">>


=============================================================================
